---- MODULE Spec2Model ----
(***************************************************************************)
(* voicepeak-mcp: the synthesis queue, the process manager, the retry loop  *)
(* around one synthesis, the narrator cache and the temp file manager, as   *)
(* state machines.                                                          *)
(*                                                                         *)
(* The program runs on one JavaScript thread.  An action is one run to     *)
(* completion: a public method up to its first suspension, or the          *)
(* continuation that follows one await, or one event/timer callback.       *)
(***************************************************************************)
EXTENDS Integers, Sequences, FiniteSets, TLC

\* ------------------------------------------------------------------ bounds
\* (The retry loop needs none: MAX_RETRIES bounds it.)
\* Number of addToQueue calls explored.
MaxJobs == 3
\* Number of child processes ProcessManager.spawn() starts.
MaxSpawns == 2
\* Number of spawn() calls refused for capacity.
MaxRejects == 1
\* Largest maxConcurrent the ProcessManager is constructed with (the
\* constructor's default, CONFIG.PROCESS.MAX_CONCURRENT, is 5; the admission
\* test is the same comparison for every value).
MaxCap == 2
\* Number of narrator fetches (engine runs with --list-narrator) explored.
MaxFetches == 3
\* Number of calls of the NarratorCache's asynchronous methods explored.
MaxCalls == 3
\* Number of TempFileManager.create() calls explored.
MaxPaths == 2
\* Number of fs.unlink calls of the TempFileManager pending at the same time.
MaxOps == 2
\* Longest stderr text explored, in pieces of text (see StderrPieces).
MaxStderr == 5

Jobs == 1..MaxJobs
Procs == 1..MaxSpawns
Fetches == 1..MaxFetches
Calls == 1..MaxCalls
\* File paths: 0 is a path supplied from outside (never returned by create()),
\* the others are the paths create() returns, in the order it returns them.
Paths == 0..MaxPaths

VARIABLES
    \* ---- SynthesisQueue
    queue,          \* this.queue: the pending items, oldest first
    isProcessing,   \* this.isProcessing
    nextJob,        \* id the next addToQueue call gets (ids follow submission order)
    loopPc,         \* per processQueue invocation: where that invocation stands
    loopItem,       \* per processQueue invocation: the item it is processing
    execState,      \* per job: state of the promise its execute() returned
    future,         \* per job: the promise addToQueue returned
    startOrder,     \* history: jobs in the order their execute() was called
    settleOrder,    \* history: jobs in the order their futures settled
    clearCalled,    \* history: clear() was called at least once
    \* ---- ProcessManager (one entry per child process)
    maxConcurrent,  \* this.maxConcurrent, the constructor's argument
    activeProcesses,\* this.activeProcesses
    nextProc,       \* id the next child process gets
    lastSpawn,      \* the promise of the latest spawn() call, as that call left it
    rejectedCalls,  \* history: number of spawn() calls refused for capacity
    procState,      \* per call: the child process as the operating system has it
    killed,         \* per call: proc.killed
    timer,          \* per call: the timeoutId timer
    grace,          \* per call: the grace-period timer set when timeoutId fires
    promise,        \* per call: the promise spawn() returned
    sigLog,         \* history, per call: signals the program sent to the child
    timedOut,       \* history, per call: timeoutId fired while the child ran
    \* ---- synthesizeSafe's execute closure (one call)
    retryPc,        \* where the call stands
    attempt,        \* the loop variable
    engineCalls,    \* history: number of runVoicePeak calls made
    errLog,         \* history: the error caught by each failed attempt, in order
    retryOutcome,   \* the promise execute() returned
    \* ---- queued syntheses: the execute closure of each queue job
    jobPc,          \* per job: where its execute() stands
    jobAttempt,     \* per job: the loop variable
    jobEngine,      \* per job: the spawn() call of the attempt in progress
    jobOutcome,     \* per job: what execute() returned or threw
    \* ---- NarratorCache (a Set object is named by the fetch that made it)
    narrators,      \* this.narrators: 0 for null, else the Set of that fetch
    fresh,          \* Date.now() - this.lastFetch < CACHE_TTL
    fetchPromise,   \* this.fetchPromise: 0 for null, else the promise of that fetch
    fetchState,     \* per fetch: the promise fetchNarrators() returned
    nextFetch,      \* id the next fetch gets
    nextCall,       \* id the next method call gets
    callOp,         \* per call: the method called
    callName,       \* per call: the argument of isValidNarrator
    callResult,     \* per call: the Set its getAvailableNarrators resolves to (0: none)
    callStarted,    \* history, per call: it started a fetch
    callSaw,        \* history, per call: the fetches in flight when it was made
    \* ---- TempFileManager and the file system under the paths it is given
    tempFiles,      \* this.tempFiles
    nextPath,       \* the path the next create() returns
    disk,           \* per path: what the file system has there
    interval,       \* this.cleanupTimer: "set" or "cleared"
    unlinkDirect,   \* per path: pending fs.unlink calls of cleanup() calls from outside
    unlinkAll,      \* the paths whose fs.unlink a cleanupAll() in progress awaits
    sweepPc,        \* cleanupStale(): "idle", "stat" or "unlink" (what it awaits)
    sweepAt,        \* cleanupStale(): the path its loop is at (0: none)
    lastIgnored,    \* history: path of the latest cleanup() that returned at once (-1: none)
    allPc,          \* cleanupAll(): "idle" or "await" (of Promise.allSettled)
    cleanupThrew,   \* history: the promise of some cleanup() call was rejected
    ensureAt,       \* ensureExists(): the path whose fs.stat it awaits (-1: none)
    ensureResult,   \* the promise of the latest ensureExists() call
    \* ---- the synthesize_and_play handler (one call at a time)
    playPc,         \* where the call stands: "idle", "synth", "play" or "unlink"
    playFile,       \* its outputFile (-1: no call yet)
    playOutcome,    \* how the latest call ended ("none": no call has ended)
    \* ---- one spawn() call's stderr buffer and the error its exit handler makes
    stderr,         \* the closure variable stderr, a sequence of pieces of text
    exitError       \* the VoicepeakError of the nonzero-exit branch (NoExitError: none yet)

queueVars == <<queue, isProcessing, nextJob, loopPc, loopItem, execState,
               future, startOrder, settleOrder, clearCalled>>

pmVars == <<maxConcurrent, activeProcesses, nextProc, lastSpawn,
            rejectedCalls, procState, killed,
            timer, grace, promise, sigLog, timedOut>>

retryVars == <<retryPc, attempt, engineCalls, errLog, retryOutcome>>

synthVars == <<jobPc, jobAttempt, jobEngine, jobOutcome>>

cacheVars == <<narrators, fresh, fetchPromise, fetchState, nextFetch, nextCall,
               callOp, callName, callResult, callStarted, callSaw>>

tmpVars == <<tempFiles, nextPath, disk, interval, unlinkDirect, unlinkAll,
             sweepPc, sweepAt, lastIgnored, allPc, cleanupThrew>>

ensureVars == <<ensureAt, ensureResult>>

playVars == <<playPc, playFile, playOutcome>>

stderrVars == <<stderr, exitError>>

vars == <<queueVars, pmVars, retryVars, synthVars, cacheVars, tmpVars, ensureVars,
          stderrVars, playVars>>

\* What an action of one component leaves alone.
otherThanQueue ==
    <<pmVars, retryVars, synthVars, cacheVars, tmpVars, stderrVars, ensureVars, playVars>>
otherThanPM ==
    <<queueVars, retryVars, synthVars, cacheVars, tmpVars, stderrVars, ensureVars, playVars>>
otherThanRetry ==
    <<queueVars, pmVars, synthVars, cacheVars, tmpVars, stderrVars, ensureVars, playVars>>
otherThanSynth ==
    <<pmVars, retryVars, cacheVars, tmpVars, stderrVars, ensureVars, playVars>>
otherThanCache ==
    <<queueVars, pmVars, retryVars, synthVars, tmpVars, stderrVars, ensureVars, playVars>>
otherThanTmp ==
    <<queueVars, pmVars, retryVars, synthVars, cacheVars, stderrVars, ensureVars, playVars>>
\* What a step of the synthesize_and_play handler leaves alone besides the
\* fields of the temp file manager.
otherThanPlay ==
    <<queueVars, pmVars, retryVars, synthVars, cacheVars, stderrVars, ensureVars>>
otherThanEnsure ==
    <<queueVars, pmVars, retryVars, synthVars, cacheVars, tmpVars, stderrVars, playVars>>
otherThanStderr ==
    <<queueVars, pmVars, retryVars, synthVars, cacheVars, tmpVars, ensureVars, playVars>>

\* ------------------------------------------------------------ SynthesisQueue

\* A promise that is not settled yet, and the two ways it settles.
\* An error is a code and, for an error thrown by a job, the job it came from.
NoError == [code |-> "none", job |-> 0]
PendingFuture == [st |-> "pending", val |-> 0, err |-> NoError]
Resolved(v) == [st |-> "resolved", val |-> v, err |-> NoError]
Rejected(e) == [st |-> "rejected", val |-> 0, err |-> e]
NoFuture == [st |-> "none", val |-> 0, err |-> NoError]

\* resolve()/reject() of a promise: only the first call has an effect.
Settle(f, outcome) == IF f.st = "pending" THEN outcome ELSE f

\* The value job j's execute() produces, and the error it throws.
ResultOf(j) == j
ErrorOf(j) == [code |-> "JobError", job |-> j]
QueueCleared == [code |-> "QUEUE_CLEARED", job |-> 0]

QueueInit ==
    /\ queue = <<>>
    /\ isProcessing = FALSE
    /\ nextJob = 1
    /\ loopPc = [i \in Jobs |-> "notCalled"]
    /\ loopItem = [i \in Jobs |-> 0]
    /\ execState = [j \in Jobs |-> "notCalled"]
    /\ future = [j \in Jobs |-> NoFuture]
    /\ startOrder = <<>>
    /\ settleOrder = <<>>
    /\ clearCalled = FALSE

\* Faulty variant of the guard below: it also returns when the queue was
\* empty before the push, so no drain loop is ever started.
ProcessQueueReturnsIfOne(processing, q) == processing \/ Len(q) <= 1

\* Faulty variant of the guard below: the isProcessing test is missing.
ProcessQueueReturnsNoFlag(processing, q) == Len(q) = 0

\* processQueue's guard: return at once when a drain loop is active or there
\* is nothing to do.
ProcessQueueReturns(processing, q) == processing \/ Len(q) = 0

\* Faulty variant of shift() below: the head is read but left in the queue.
QueuePeek(q) == [item |-> Head(q), rest |-> q]

\* Faulty variant of shift() below: pop(), which takes the newest item.
QueuePop(q) == [item |-> q[Len(q)], rest |-> SubSeq(q, 1, Len(q) - 1)]

\* this.queue.shift(): the item taken and the items left.
QueueShift(q) == [item |-> Head(q), rest |-> Tail(q)]

\* The while loop's body up to its await, for invocation i on queue q:
\* shift the head, call processSingleItem, which calls execute().
StartHead(i, q) ==
    LET sh == QueueShift(q)
    IN /\ queue' = sh.rest
       /\ loopItem' = [loopItem EXCEPT ![i] = sh.item]
       /\ loopPc' = [loopPc EXCEPT ![i] = "awaitExecute"]
       /\ execState' = [execState EXCEPT ![sh.item] = "running"]
       /\ startOrder' = Append(startOrder, sh.item)

\* addToQueue(execute): push the item, then processQueue() runs synchronously
\* up to its first await.
AddToQueueBody ==
    /\ nextJob <= MaxJobs
    /\ LET j == nextJob
           q == Append(queue, j)
       IN /\ nextJob' = j + 1
          /\ future' = [future EXCEPT ![j] = PendingFuture]
          /\ \/ /\ ProcessQueueReturns(isProcessing, q)
                /\ queue' = q
                /\ loopPc' = [loopPc EXCEPT ![j] = "returned"]
                /\ UNCHANGED <<isProcessing, loopItem, execState, startOrder>>
             \/ /\ ~ProcessQueueReturns(isProcessing, q)
                /\ isProcessing' = TRUE
                /\ StartHead(j, q)
    /\ UNCHANGED <<settleOrder, clearCalled>>

\* addToQueue(execute) with execute left abstract.
AddToQueue ==
    /\ AddToQueueBody
    /\ UNCHANGED otherThanQueue

\* The promise returned by job j's execute() settles (ok: fulfilled or rejected).
ExecuteSettles(j, ok) ==
    /\ execState[j] = "running"
    /\ execState' = [execState EXCEPT ![j] = IF ok THEN "fulfilled" ELSE "rejected"]
    /\ UNCHANGED <<queue, isProcessing, nextJob, loopPc, loopItem, future,
                   startOrder, settleOrder, clearCalled>>
    /\ UNCHANGED otherThanQueue

\* Faulty variant of the outcome below: a rejection is not passed on.
ItemOutcomeNoCatch(j) ==
    IF execState[j] = "fulfilled" THEN Resolved(ResultOf(j)) ELSE PendingFuture

\* What processSingleItem hands to the item's continuation.
ItemOutcome(j) ==
    IF execState[j] = "fulfilled" THEN Resolved(ResultOf(j)) ELSE Rejected(ErrorOf(j))

\* processSingleItem after `await execute()`: resolve(result) or reject(error).
ProcessSingleItemResumesBody(i) ==
    /\ loopPc[i] = "awaitExecute"
    /\ execState[loopItem[i]] \in {"fulfilled", "rejected"}
    /\ LET j == loopItem[i]
       IN /\ future' = [future EXCEPT ![j] = Settle(@, ItemOutcome(j))]
          /\ settleOrder' = IF future[j].st = "pending"
                            THEN Append(settleOrder, j) ELSE settleOrder
    /\ loopPc' = [loopPc EXCEPT ![i] = "awaitItem"]
    /\ UNCHANGED <<queue, isProcessing, nextJob, loopItem, execState,
                   startOrder, clearCalled>>

\* The same, with execute left abstract.
ProcessSingleItemResumes(i) ==
    /\ ProcessSingleItemResumesBody(i)
    /\ UNCHANGED otherThanQueue

\* processQueue after `await this.processSingleItem(item)`: the while test,
\* then either the next item or the end of the drain loop.
ProcessQueueResumesBody(i) ==
    /\ loopPc[i] = "awaitItem"
    /\ \/ /\ Len(queue) > 0
          /\ StartHead(i, queue)
          /\ UNCHANGED isProcessing
       \/ /\ Len(queue) = 0
          /\ isProcessing' = FALSE
          /\ loopPc' = [loopPc EXCEPT ![i] = "done"]
          /\ UNCHANGED <<queue, loopItem, execState, startOrder>>
    /\ UNCHANGED <<nextJob, future, settleOrder, clearCalled>>

\* The same, with execute left abstract.
ProcessQueueResumes(i) ==
    /\ ProcessQueueResumesBody(i)
    /\ UNCHANGED otherThanQueue

\* The elements of a sequence.
RECURSIVE SeqToSet(_)
SeqToSet(s) == IF s = <<>> THEN {} ELSE {Head(s)} \cup SeqToSet(Tail(s))

\* Faulty variant of the targets below: the executing job is rejected too.
ClearTargetsWithRunning(q) ==
    SeqToSet(q) \cup {j \in Jobs : execState[j] = "running"}

\* The items clear() rejects.
ClearTargets(q) == SeqToSet(q)

\* Faulty variant of clear() below: it also leaves the draining flag set.
ClearBodyLeavesFlag ==
    /\ future' = [j \in Jobs |->
                     IF j \in ClearTargets(queue)
                     THEN Settle(future[j], Rejected(QueueCleared))
                     ELSE future[j]]
    /\ settleOrder' = settleOrder \o
                      SelectSeq(queue, LAMBDA j : future'[j] # future[j])
    /\ queue' = <<>>
    /\ clearCalled' = TRUE
    /\ isProcessing' = TRUE
    /\ UNCHANGED <<nextJob, loopPc, loopItem, execState, startOrder>>

\* clear(): reject every pending item, then empty the queue.
ClearBody ==
    /\ future' = [j \in Jobs |->
                     IF j \in ClearTargets(queue)
                     THEN Settle(future[j], Rejected(QueueCleared))
                     ELSE future[j]]
    /\ settleOrder' = settleOrder \o
                      SelectSeq(queue, LAMBDA j : future'[j] # future[j])
    /\ queue' = <<>>
    /\ clearCalled' = TRUE
    /\ UNCHANGED <<isProcessing, nextJob, loopPc, loopItem, execState, startOrder>>

\* clear() with execute left abstract.
Clear ==
    /\ ClearBody
    /\ UNCHANGED otherThanQueue

QueueNext ==
    \/ AddToQueue
    \/ \E j \in Jobs, ok \in BOOLEAN : ExecuteSettles(j, ok)
    \/ \E i \in Jobs : ProcessSingleItemResumes(i)
    \/ \E i \in Jobs : ProcessQueueResumes(i)
    \/ Clear

\* ---------------------------------------------------- SynthesisQueue: claims

Submitted(j) == j < nextJob
Started(j) == execState[j] # "notCalled"
ExecSettled(j) == execState[j] \in {"fulfilled", "rejected"}
\* processSingleItem has run to its end for job j.
Finished(j) ==
    /\ ExecSettled(j)
    /\ ~\E i \in Jobs : loopPc[i] = "awaitExecute" /\ loopItem[i] = j
InQueue(j) == \E k \in 1..Len(queue) : queue[k] = j
Increasing(s) == \A a, b \in 1..Len(s) : a < b => s[a] < s[b]
FirstK(s) == \A k \in 1..Len(s) : s[k] = k

\* C1: at most one job's execute() is started and not yet settled, in every
\* reachable state (every interleaving of addToQueue, completions and clear).
C1_OneJobAtATime ==
    Cardinality({j \in Jobs : execState[j] = "running"}) <= 1

\* C1 witness: one job is executing while a later one waits in the queue and a
\* clear() has already happened.
C1_Witness ==
    /\ clearCalled
    /\ \E j \in Jobs : execState[j] = "running"
    /\ Len(queue) > 0

\* C2: execute() calls happen in submission order, each only after every
\* earlier started job has settled; without clear(), the futures settle in
\* submission order, each with its own job's result or error.
C2_SubmissionOrder ==
    /\ Increasing(startOrder)
    /\ \A k \in 1..Len(startOrder) :
          k < Len(startOrder) => ExecSettled(startOrder[k])
    /\ ~clearCalled =>
          /\ FirstK(startOrder)
          /\ FirstK(settleOrder)
          /\ \A j \in Jobs :
                /\ future[j].st = "resolved" =>
                      execState[j] = "fulfilled" /\ future[j].val = ResultOf(j)
                /\ future[j].st = "rejected" =>
                      execState[j] = "rejected" /\ future[j].err = ErrorOf(j)

\* C2 witness: all jobs were submitted before the first one settled, and all
\* their futures have settled, with no clear().
C2_Witness ==
    /\ ~clearCalled
    /\ Len(settleOrder) = MaxJobs
    /\ \A j \in Jobs : j > 1 => loopPc[j] = "returned"

\* What one clear() step does: every job in the queue gets QUEUE_CLEARED, the
\* queue is emptied, and nothing else changes.
C3_ClearStep ==
    /\ queue' = <<>>
    /\ \A j \in Jobs :
          IF InQueue(j)
          THEN future'[j] = Rejected(QueueCleared)
          ELSE future'[j] = future[j]
    /\ execState' = execState
    /\ loopPc' = loopPc

\* C3: a clear() step rejects with QUEUE_CLEARED exactly the jobs in the queue
\* and empties the queue; it changes no other future and no execute() in
\* progress; a job that was started is never given QUEUE_CLEARED, a job
\* given QUEUE_CLEARED is never started, and a started job's future settles
\* with its own outcome.
C3_ClearRejectsPending ==
    /\ [][Clear => C3_ClearStep]_vars
    /\ [](\A j \in Jobs :
            /\ InQueue(j) => future[j].st = "pending" /\ ~Started(j)
            /\ future[j].err = QueueCleared => ~Started(j) /\ ~InQueue(j)
            /\ Finished(j) => future[j] \in {Resolved(ResultOf(j)), Rejected(ErrorOf(j))})

\* C3 witness: a clear() has rejected two pending jobs while the first job was
\* executing, and that job's future has then resolved with its own result.
C3_Witness ==
    /\ future[1] = Resolved(ResultOf(1))
    /\ \E a, b \in Jobs : /\ a # b
                          /\ future[a].err = QueueCleared
                          /\ future[b].err = QueueCleared

\* C4: a job whose execute() rejects has its future rejected with that same
\* error; the drain loop stays alive while isProcessing is set, and when it
\* has ended no submitted job is left unsettled: each was executed and settled
\* with its own outcome, or rejected by clear().
C4_FailureDoesNotStall ==
    /\ \A j \in Jobs :
          /\ (Finished(j) /\ execState[j] = "rejected") =>
                future[j] = Rejected(ErrorOf(j))
          /\ (Finished(j) /\ execState[j] = "fulfilled") =>
                future[j] = Resolved(ResultOf(j))
    /\ isProcessing =>
          \E i \in Jobs : loopPc[i] \in {"awaitExecute", "awaitItem"}
    /\ ~isProcessing =>
          /\ queue = <<>>
          /\ \A j \in Jobs :
                Submitted(j) => Finished(j) \/ future[j].err = QueueCleared

\* C4 witness: the first job threw, a job submitted after it was executed and
\* resolved with its own value, and the drain loop has ended.
C4_Witness ==
    /\ ~isProcessing
    /\ future[1] = Rejected(ErrorOf(1))
    /\ \E j \in Jobs : j > 1 /\ future[j] = Resolved(ResultOf(j))

NoDuplicates(s) == \A a, b \in 1..Len(s) : a # b => s[a] # s[b]
FutureSettled(j) == future[j].st \in {"resolved", "rejected"}

\* C21: no job's execute() is called twice and an execute() that was called
\* is never called again; a future is settled once and a settled future never
\* changes; a job rejected by clear() was not started and is not started
\* later; and when the drain loop has ended every submitted job's future is
\* settled.
C21_ConsumedOnce ==
    /\ [](NoDuplicates(startOrder) /\ NoDuplicates(settleOrder))
    /\ [](\A j \in Jobs :
            /\ FutureSettled(j) <=> \E k \in 1..Len(settleOrder) : settleOrder[k] = j
            /\ Started(j) <=> \E k \in 1..Len(startOrder) : startOrder[k] = j
            /\ future[j] = Rejected(QueueCleared) => ~Started(j)
            /\ (Submitted(j) /\ ~isProcessing) => FutureSettled(j))
    /\ [][\A j \in Jobs :
             /\ FutureSettled(j) => future'[j] = future[j]
             /\ Started(j) => Started(j)'
             /\ ExecSettled(j) => execState'[j] = execState[j]
             /\ (future[j] = Rejected(QueueCleared)) => execState'[j] = "notCalled"]_vars

\* C21 witness: three jobs were submitted and each was consumed once: one
\* resolved, one was rejected with its own error, one was rejected by
\* clear() and never started; the drain loop has ended.
C21_Witness ==
    /\ ~isProcessing
    /\ Len(settleOrder) = MaxJobs
    /\ Len(startOrder) = MaxJobs - 1
    /\ \E a, b, c \in Jobs :
          /\ future[a] = Resolved(ResultOf(a))
          /\ future[b] = Rejected(ErrorOf(b))
          /\ future[c] = Rejected(QueueCleared)

\* An active drain loop: a processQueue invocation suspended at an await.
LoopActive == \E i \in Jobs : loopPc[i] \in {"awaitExecute", "awaitItem"}

\* C22: a clear() on an empty queue changes nothing of the queue's state; an
\* addToQueue after a clear() gives a pending future to a job that is
\* started at once or waits in the queue of an active drain loop; the
\* draining flag is never set without an active drain loop; and every
\* submitted job's future is eventually settled, the job having been
\* executed unless a clear() rejected it.
C22_ReusableAfterClear ==
    /\ [][(Clear /\ queue = <<>>) =>
             <<queue, isProcessing, nextJob, loopPc, loopItem, execState, future,
               startOrder, settleOrder>>' =
             <<queue, isProcessing, nextJob, loopPc, loopItem, execState, future,
               startOrder, settleOrder>>]_vars
    /\ [][(AddToQueue /\ clearCalled) =>
             /\ future'[nextJob] = PendingFuture
             /\ \/ execState'[nextJob] = "running"
                \/ /\ \E k \in 1..Len(queue') : queue'[k] = nextJob
                   /\ LoopActive']_vars
    /\ [](isProcessing => LoopActive)
    /\ \A j \in Jobs :
          Submitted(j) ~>
              (FutureSettled(j) /\ (Finished(j) \/ future[j] = Rejected(QueueCleared)))

\* C22 witness: clear() was called on an empty, idle queue before anything
\* was submitted and again while the second job waited; the third job,
\* submitted after that, was executed and resolved, and the queue is idle.
C22_Witness ==
    /\ clearCalled
    /\ future[2] = Rejected(QueueCleared)
    /\ future[3] = Resolved(ResultOf(3))
    /\ ~isProcessing /\ queue = <<>>

\* getStatus() (part_008:483-488).
getStatusCountsRunning ==
    [queueLength |-> Len(queue) + Cardinality({j \in Jobs : execState[j] = "running"}),
     isProcessing |-> isProcessing]

getStatus == [queueLength |-> Len(queue), isProcessing |-> isProcessing]

\* Jobs that wait for their turn: submitted, execute() not called, future
\* not rejected by clear().
Waiting == {j \in Jobs : Submitted(j) /\ ~Started(j) /\ future[j] = PendingFuture}
AllSettled == \A j \in Jobs : Submitted(j) => FutureSettled(j)
IdleStatus == [queueLength |-> 0, isProcessing |-> FALSE]

\* C23: getStatus().queueLength is the number of waiting jobs (the running
\* job is not counted) and getStatus().isProcessing is true exactly while a
\* drain loop is active; the status is {0, false} before any submission and
\* whenever every submitted future is settled and the loop has ended, and
\* once every submitted future is settled the status becomes {0, false}.
C23_StatusReports ==
    /\ [](getStatus.queueLength = Cardinality(Waiting))
    /\ [](getStatus.isProcessing <=> LoopActive)
    /\ [](nextJob = 1 => getStatus = IdleStatus)
    /\ []((AllSettled /\ ~LoopActive) => getStatus = IdleStatus)
    /\ [](AllSettled => getStatus.queueLength = 0)
    /\ (AllSettled /\ nextJob > 1) ~> (getStatus = IdleStatus)

\* Witness: one job is being executed and two wait behind it.
C23_Witness ==
    /\ execState[1] = "running"
    /\ getStatus = [queueLength |-> 2, isProcessing |-> TRUE]

\* C36: every submitted job's future is eventually settled; an addToQueue
\* made while a drain loop is active (also one whose last item is already
\* done) starts no second loop and leaves the job in the queue of the active
\* loop; an active loop does not end while a job waits; a waiting job always
\* has an active loop and is eventually started or rejected by clear().
C36_NoJobStranded ==
    /\ \A j \in Jobs : Submitted(j) ~> FutureSettled(j)
    /\ \A j \in Jobs : InQueue(j) ~> (Started(j) \/ future[j] = Rejected(QueueCleared))
    /\ [][(AddToQueue /\ LoopActive) =>
             /\ loopPc'[nextJob] = "returned"
             /\ queue' = Append(queue, nextJob)
             /\ \A i \in Jobs : loopPc'[i] = loopPc[i] \/ i = nextJob]_vars
    /\ [][\A i \in Jobs :
             (loopPc[i] \in {"awaitExecute", "awaitItem"} /\ queue # <<>> /\ queue' # <<>>)
                => loopPc'[i] \in {"awaitExecute", "awaitItem"}]_vars
    /\ [](queue # <<>> => LoopActive)

\* C36 witness: the first job is done and its future settled, the loop it
\* started has not resumed yet, and the second job waits in the queue, its
\* own processQueue() call having returned at once.
C36_Witness ==
    /\ settleOrder = <<1>>
    /\ loopPc[1] = "awaitItem"
    /\ queue = <<2>>
    /\ loopPc[2] = "returned"

ActiveLoops == {i \in Jobs : loopPc[i] \in {"awaitExecute", "awaitItem"}}

\* C37: between the steps of the queue's methods, getStatus().queueLength > 0
\* implies getStatus().isProcessing, isProcessing is true only while a drain
\* loop is active, and at most one drain loop is active.
C37_PendingOnlyWhileDraining ==
    /\ getStatus.queueLength > 0 => getStatus.isProcessing
    /\ getStatus.isProcessing => ActiveLoops # {}
    /\ Cardinality(ActiveLoops) <= 1

\* C37 witness: after a clear() that rejected the second job, the third job
\* waits while the loop started for the first is still executing it.
C37_Witness ==
    /\ clearCalled
    /\ future[2] = Rejected(QueueCleared)
    /\ queue = <<3>>
    /\ isProcessing
    /\ ActiveLoops = {1}
    /\ execState[1] = "running"

\* ------------------------------------------------------------ ProcessManager

\* Rejections of the promise spawn() returns: the VoicepeakError's code and
\* what else the caller can read from it. For PROCESS_FAILED, cause "exit" is
\* the message "Process exited with code N: ..." with details {code, stderr},
\* cause "spawn" the message "Failed to spawn process: ..." with the child's
\* Error object as details.
SpawnRejected(code, cause) == [st |-> "rejected", code |-> code, cause |-> cause]
SpawnResolved == [st |-> "resolved", code |-> "none", cause |-> "none"]
SpawnPending == [st |-> "pending", code |-> "none", cause |-> "none"]
NoPromise == [st |-> "none", code |-> "none", cause |-> "none"]

\* How a child process ends, as the "exit" event reports it: with an exit
\* code (signal is null), or killed by a signal (code is null); otherSignal
\* stands for every signal other than SIGTERM and SIGKILL.
ExitKinds == {"code0", "codeNonzero", "SIGTERM", "SIGKILL", "otherSignal"}

PMInitWith(cap) ==
    /\ maxConcurrent = cap
    /\ activeProcesses = {}
    /\ nextProc = 1
    /\ lastSpawn = NoPromise
    /\ rejectedCalls = 0
    /\ procState = [p \in Procs |-> "none"]
    /\ killed = [p \in Procs |-> FALSE]
    /\ timer = [p \in Procs |-> "none"]
    /\ grace = [p \in Procs |-> "none"]
    /\ promise = [p \in Procs |-> NoPromise]
    /\ sigLog = [p \in Procs |-> <<>>]
    /\ timedOut = [p \in Procs |-> FALSE]

PMInit == \E cap \in 1..MaxCap : PMInitWith(cap)

\* Faulty variant of the admission test below: > instead of >=.
AtCapacityOffByOne(active, cap) == Cardinality(active) > cap

\* spawn()'s admission test.
AtCapacity(active, cap) == Cardinality(active) >= cap

\* spawn(command, args, options) up to its await: the admission test, then
\* child_process.spawn (started: the executable could be started; otherwise
\* the child's "error" event follows), registration and the timeout timer.
Spawn(started) ==
    /\ IF AtCapacity(activeProcesses, maxConcurrent)
       THEN /\ rejectedCalls < MaxRejects
            /\ rejectedCalls' = rejectedCalls + 1
            /\ lastSpawn' = SpawnRejected("TOO_MANY_PROCESSES", "none")
            /\ UNCHANGED <<activeProcesses, nextProc, procState, timer, promise>>
       ELSE /\ nextProc <= MaxSpawns
            /\ LET p == nextProc
               IN /\ nextProc' = p + 1
                  /\ procState' = [procState EXCEPT
                         ![p] = IF started THEN "alive" ELSE "spawnError"]
                  /\ activeProcesses' = activeProcesses \cup {p}
                  /\ timer' = [timer EXCEPT ![p] = "armed"]
                  /\ promise' = [promise EXCEPT ![p] = SpawnPending]
            /\ lastSpawn' = SpawnPending
            /\ UNCHANGED rejectedCalls
    /\ UNCHANGED <<maxConcurrent, killed, grace, sigLog, timedOut>>
    /\ UNCHANGED otherThanPM

\* proc.kill(sig) for every child in `targets`: a running child receives the
\* signal and proc.killed becomes true; a child with no process is left alone.
KillAll(targets, sig, by) ==
    /\ killed' = [p \in Procs |->
                     IF p \in targets /\ procState[p] = "alive" THEN TRUE ELSE killed[p]]
    /\ sigLog' = [p \in Procs |->
                     IF p \in targets /\ procState[p] = "alive"
                     THEN Append(sigLog[p], [sig |-> sig, by |-> by])
                     ELSE sigLog[p]]

\* The timeoutId callback: SIGTERM, and the grace-period timer is set.
TimeoutFires(p) ==
    /\ timer[p] = "armed"
    /\ procState[p] = "alive"
    /\ timer' = [timer EXCEPT ![p] = "fired"]
    /\ KillAll({p}, "SIGTERM", "timeout")
    /\ grace' = [grace EXCEPT ![p] = "armed"]
    /\ timedOut' = [timedOut EXCEPT ![p] = TRUE]
    /\ UNCHANGED <<maxConcurrent, activeProcesses, nextProc, lastSpawn,
                   rejectedCalls, procState, promise>>
    /\ UNCHANGED otherThanPM

\* Faulty variant of the test below: SIGKILL whatever proc.killed is.
GraceKillsAlways(wasKilled) == TRUE

\* The grace-period callback's test: SIGKILL only if proc.killed is false.
GraceKills(wasKilled) == wasKilled = FALSE

\* The grace-period callback, 5 seconds after timeoutId fired.
GraceFires(p) ==
    /\ grace[p] = "armed"
    /\ grace' = [grace EXCEPT ![p] = "fired"]
    /\ IF GraceKills(killed[p])
       THEN KillAll({p}, "SIGKILL", "grace")
       ELSE UNCHANGED <<killed, sigLog>>
    /\ UNCHANGED <<maxConcurrent, activeProcesses, nextProc, lastSpawn,
                   rejectedCalls, procState, timer, promise, timedOut>>
    /\ UNCHANGED otherThanPM

\* clearTimeout(timeoutId).
ClearTimeout(t) == IF t = "armed" THEN "cleared" ELSE t

\* Faulty variant of the release below: the process is never deleted.
ReleaseSlotNever(active, p) == active

\* The finally block of spawn(): this.activeProcesses.delete(proc).
ReleaseSlot(active, p) == active \ {p}

\* Faulty variant of the exit handler below: the exit code is not looked at.
ExitOutcomeIgnoresCode(how) ==
    IF how \in {"SIGTERM", "SIGKILL"}
    THEN SpawnRejected("PROCESS_TIMEOUT", "none")
    ELSE SpawnResolved

\* What the "exit" handler does with the promise, from (code, signal).
ExitOutcome(how) ==
    IF how \in {"SIGTERM", "SIGKILL"}
    THEN SpawnRejected("PROCESS_TIMEOUT", "none")
    ELSE IF how # "code0"
         THEN SpawnRejected("PROCESS_FAILED", "exit")
         ELSE SpawnResolved

\* The child ends and its "exit" event is handled; the awaiting spawn() then
\* resumes and runs its finally block before any other code of the program.
ProcExits(p, how) ==
    /\ procState[p] = "alive"
    /\ procState' = [procState EXCEPT ![p] = "exited"]
    /\ timer' = [timer EXCEPT ![p] = ClearTimeout(@)]
    /\ promise' = [promise EXCEPT ![p] = ExitOutcome(how)]
    /\ activeProcesses' = ReleaseSlot(activeProcesses, p)
    /\ UNCHANGED <<maxConcurrent, nextProc, lastSpawn, rejectedCalls, killed,
                   grace, sigLog, timedOut>>
    /\ UNCHANGED otherThanPM

\* Faulty variant of the error handler below: the error of a nonzero exit.
ErrorOutcomeLikeExit == SpawnRejected("PROCESS_FAILED", "exit")

\* What the "error" handler does with the promise.
ErrorOutcome == SpawnRejected("PROCESS_FAILED", "spawn")

\* The child's "error" event after a failed start (processExited is false),
\* then the finally block.
SpawnErrorEvent(p) ==
    /\ procState[p] = "spawnError"
    /\ procState' = [procState EXCEPT ![p] = "failed"]
    /\ timer' = [timer EXCEPT ![p] = ClearTimeout(@)]
    /\ promise' = [promise EXCEPT ![p] = ErrorOutcome]
    /\ activeProcesses' = ReleaseSlot(activeProcesses, p)
    /\ UNCHANGED <<maxConcurrent, nextProc, lastSpawn, rejectedCalls, killed,
                   grace, sigLog, timedOut>>
    /\ UNCHANGED otherThanPM

\* cleanup(): SIGTERM to every active child, then activeProcesses.clear().
Cleanup ==
    /\ KillAll(activeProcesses, "SIGTERM", "cleanup")
    /\ activeProcesses' = {}
    /\ UNCHANGED <<maxConcurrent, nextProc, lastSpawn, rejectedCalls, procState,
                   timer, grace, promise, timedOut>>
    /\ UNCHANGED otherThanPM

\* get activeCount().
activeCount == Cardinality(activeProcesses)

PMNext ==
    \/ \E started \in BOOLEAN : Spawn(started)
    \/ \E p \in Procs : TimeoutFires(p)
    \/ \E p \in Procs : GraceFires(p)
    \/ \E p \in Procs, how \in ExitKinds : ProcExits(p, how)
    \/ \E p \in Procs : SpawnErrorEvent(p)
    \/ Cleanup

\* ---------------------------------------------------- ProcessManager: claims

Alive(p) == procState[p] = "alive"
Terminated(p) == procState[p] \in {"exited", "failed"}
LiveProcs == {p \in Procs : Alive(p)}
SpawnStep == \E started \in BOOLEAN : Spawn(started)
SentTo(p, sig) == \E k \in 1..Len(sigLog[p]) : sigLog[p][k].sig = sig
SentBy(p, by) == \E k \in 1..Len(sigLog[p]) : sigLog[p][k].by = by

\* C5: the number of child processes started by spawn() and not yet exited is
\* at most maxConcurrent in every reachable state.
C5_LiveWithinCap == Cardinality(LiveProcs) <= maxConcurrent

\* What a refused spawn() leaves behind: the TOO_MANY_PROCESSES rejection and
\* nothing else.
C6_RefusedStep ==
    /\ lastSpawn' = SpawnRejected("TOO_MANY_PROCESSES", "none")
    /\ rejectedCalls' = rejectedCalls + 1
    /\ UNCHANGED <<activeProcesses, nextProc, procState, killed, timer, grace,
                   promise, sigLog, timedOut>>

\* C6: a spawn() call made while activeCount >= maxConcurrent is refused with
\* TOO_MANY_PROCESSES and changes nothing: no child process, no registration,
\* no timer, nothing kept for later; and activeCount never exceeds maxConcurrent.
C6_RejectAtCapacity ==
    /\ [][(SpawnStep /\ activeCount >= maxConcurrent) => C6_RefusedStep]_vars
    /\ [](activeCount <= maxConcurrent)

\* C6 witness: a manager constructed with the largest capacity has that many
\* active processes and has just refused a spawn().
C6_Witness ==
    /\ maxConcurrent = MaxCap
    /\ activeCount = maxConcurrent
    /\ lastSpawn = SpawnRejected("TOO_MANY_PROCESSES", "none")

\* C7: a process that has reached a terminal state (exit code 0, nonzero exit,
\* killed by a signal, failed start) is not in the active set, its timeout
\* timer is not armed and its promise is settled; the active set holds only
\* processes that have not terminated, and a spawn() below capacity is accepted.
C7_TerminalReleases ==
    /\ [](\A p \in Procs :
            /\ Terminated(p) =>
                  /\ p \notin activeProcesses
                  /\ timer[p] # "armed"
                  /\ promise[p].st \in {"resolved", "rejected"}
            /\ p \in activeProcesses => procState[p] \in {"alive", "spawnError"})
    /\ [][(SpawnStep /\ activeCount < maxConcurrent) =>
             /\ lastSpawn' = SpawnPending
             /\ activeProcesses' = activeProcesses \cup {nextProc}]_vars

\* C7 witness: with capacity 1 and no cleanup(), a spawn() was refused, the
\* running process was then terminated after its timeout, and the next spawn()
\* was accepted.
C7_Witness ==
    /\ maxConcurrent = 1
    /\ rejectedCalls = 1
    /\ lastSpawn = SpawnPending
    /\ procState[1] = "exited"
    /\ promise[1].code = "PROCESS_TIMEOUT"
    /\ ~SentBy(1, "cleanup")
    /\ Alive(2)
    /\ activeProcesses = {2}

\* C8: a process whose timeout elapsed while it was running never resolves and
\* is never reported as PROCESS_FAILED: its promise is pending or rejected with
\* PROCESS_TIMEOUT, and once it has terminated it is not in the active set.
C8_TimeoutReported ==
    \A p \in Procs :
        timedOut[p] =>
            /\ promise[p].st = "pending" \/ promise[p].code = "PROCESS_TIMEOUT"
            /\ Terminated(p) => p \notin activeProcesses

\* C9: a process whose timeout expired was sent SIGTERM, and one that is still
\* running when the 5-second grace period has ended was sent SIGKILL.
C9_KillEscalation ==
    \A p \in Procs :
        /\ timedOut[p] => SentTo(p, "SIGTERM")
        /\ (grace[p] = "fired" /\ Alive(p)) => SentTo(p, "SIGKILL")

\* C17: the promise of spawn() resolves exactly when the child's exit event
\* reports code 0 (and so no signal); an exit with another code rejects it
\* with PROCESS_FAILED from the exit handler; the promise is never resolved
\* for a child that has not exited, and an exit always settles it.
C17_ExitCodeDecides ==
    /\ [][\A p \in Procs : \A how \in ExitKinds :
             ProcExits(p, how) =>
                /\ promise[p] = SpawnPending
                /\ (promise'[p] = SpawnResolved) <=> (how = "code0")
                /\ (how = "codeNonzero") =>
                      promise'[p] = SpawnRejected("PROCESS_FAILED", "exit")]_vars
    /\ [](\A p \in Procs :
            /\ promise[p] = SpawnResolved => procState[p] = "exited"
            /\ procState[p] = "exited" => promise[p].st \in {"resolved", "rejected"})

\* C17 witness: one child exited with code 0 and its promise resolved, another
\* exited with a nonzero code and its promise was rejected with PROCESS_FAILED.
C17_Witness ==
    \E p, q \in Procs :
        /\ procState[p] = "exited" /\ promise[p] = SpawnResolved
        /\ procState[q] = "exited"
        /\ promise[q] = SpawnRejected("PROCESS_FAILED", "exit")

\* C18: a promise rejected with PROCESS_TIMEOUT belongs to a process whose own
\* timeout timer fired and sent it a signal.
C18_TimeoutOnlyByTimer ==
    \A p \in Procs :
        promise[p].code = "PROCESS_TIMEOUT" => timedOut[p] /\ SentBy(p, "timeout")

\* C25: the rejection made by the error handler (the executable could not be
\* started) is a different error from every outcome of the exit handler, the
\* nonzero exit included: a process that failed to start and one that ran and
\* exited never have equal promises, although both carry PROCESS_FAILED.
C25_SpawnFailureDistinct ==
    /\ [][\A p \in Procs :
             SpawnErrorEvent(p) =>
                /\ promise'[p].st = "rejected"
                /\ \A how \in ExitKinds : promise'[p] # ExitOutcome(how)]_vars
    /\ [](\A p, q \in Procs :
            (procState[p] = "failed" /\ procState[q] = "exited") =>
                promise[p] # promise[q])

\* C25 witness: one process failed to start, another ran and exited with a
\* nonzero code; both promises are rejected with PROCESS_FAILED.
C25_Witness ==
    \E p, q \in Procs :
        /\ procState[p] = "failed" /\ promise[p].code = "PROCESS_FAILED"
        /\ procState[q] = "exited" /\ promise[q].code = "PROCESS_FAILED"

\* C24: the promise of a process that cleanup() sent SIGTERM to (it was
\* pending at that time) is never resolved afterwards: it stays pending until
\* it is rejected.
C24_CleanupRejectsPending ==
    \A p \in Procs :
        SentBy(p, "cleanup") => promise[p].st \in {"pending", "rejected"}

\* C34: activeCount is the number of processes spawn() has registered that
\* have not reached a terminal state (running, or failed to start with the
\* error event still to come).
C34_ActiveCountIsLive ==
    activeCount = Cardinality({p \in Procs : procState[p] \in {"alive", "spawnError"}})

\* C35: every spawn() call eventually settles: a pending promise is
\* eventually resolved or rejected.
C35_EverySpawnSettles ==
    \A p \in Procs :
        (promise[p].st = "pending") ~> (promise[p].st \in {"resolved", "rejected"})

\* C38: the timeout timer is never armed for a process that has reached a
\* terminal state, the grace-period callback calls no kill when it fires for
\* such a process, no such process is in the active set that cleanup()
\* signals, and the signals sent to a process never change once it has
\* reached a terminal state.
C38_NoSignalAfterExit ==
    /\ [](\A p \in Procs :
            Terminated(p) => timer[p] # "armed" /\ p \notin activeProcesses)
    /\ [][\A p \in Procs :
             (GraceFires(p) /\ Terminated(p)) => ~GraceKills(killed[p])]_vars
    /\ [][\A p \in Procs : Terminated(p) => sigLog'[p] = sigLog[p]]_vars

\* C38 witness: a process was sent SIGTERM by its timeout timer and has
\* exited, and the grace-period timer set for it is still due.
C38_Witness ==
    \E p \in Procs :
        /\ procState[p] = "exited"
        /\ grace[p] = "armed"
        /\ sigLog[p] = <<[sig |-> "SIGTERM", by |-> "timeout"]>>

\* ------------------------------------- ProcessManager: stderr of a failure

\* Text is a sequence of pieces. "\n" is the newline character, "[debug]" the
\* marker written in one piece, "[deb" and "ug]" the marker's two halves
\* (side by side they spell the marker), "x" any text without newline and
\* without a part of the marker.
StderrPieces == {"\n", "[debug]", "[deb", "ug]", "x"}

NoExitError == [message |-> <<>>, code |-> "none", details |-> <<>>]

StderrInit ==
    /\ stderr = <<>>
    /\ exitError = NoExitError

\* line.includes("[debug]").
IncludesDebug(line) ==
    \E k \in 1..Len(line) :
        \/ line[k] = "[debug]"
        \/ k < Len(line) /\ line[k] = "[deb" /\ line[k + 1] = "ug]"

\* text.split("\n"): the pieces of text between the newlines, empty ones kept.
RECURSIVE Split(_)
Split(text) ==
    IF \A k \in 1..Len(text) : text[k] # "\n"
    THEN <<text>>
    ELSE LET i == CHOOSE k \in 1..Len(text) :
                      text[k] = "\n" /\ \A m \in 1..(k - 1) : text[m] # "\n"
         IN <<SubSeq(text, 1, i - 1)>> \o Split(SubSeq(text, i + 1, Len(text)))

\* lines.join("\n").
RECURSIVE Join(_)
Join(lines) ==
    IF lines = <<>> THEN <<>>
    ELSE IF Len(lines) = 1 THEN lines[1]
    ELSE lines[1] \o <<"\n">> \o Join(Tail(lines))

KeepLine(line) == ~IncludesDebug(line)

\* Faulty variant of cleanStderr below: nothing is filtered out.
CleanStderrUnfiltered(text) == text

\* const cleanStderr = stderr.split("\n").filter(...).join("\n").
CleanStderr(text) == Join(SelectSeq(Split(text), KeepLine))

\* `Process exited with code ${code}: ` as one piece of text.
MessagePrefix == <<"x">>

\* proc.stderr.on("data"): stderr += data.toString().
StderrData(piece) ==
    /\ exitError = NoExitError
    /\ Len(stderr) < MaxStderr
    /\ stderr' = Append(stderr, piece)
    /\ UNCHANGED exitError
    /\ UNCHANGED otherThanStderr

\* The exit handler's branch for a nonzero exit code.
ExitNonzero ==
    /\ exitError = NoExitError
    /\ exitError' = [message |-> MessagePrefix \o CleanStderr(stderr),
                     code |-> "PROCESS_FAILED",
                     details |-> CleanStderr(stderr)]
    /\ UNCHANGED stderr
    /\ UNCHANGED otherThanStderr

StderrNext ==
    \/ \E piece \in StderrPieces : StderrData(piece)
    \/ ExitNonzero

\* ----------------------------- ProcessManager: stderr of a failure, claims

\* a is b with some elements left out, the order kept.
RECURSIVE IsSubSeq(_, _)
IsSubSeq(a, b) ==
    IF a = <<>> THEN TRUE
    ELSE IF b = <<>> THEN FALSE
    ELSE IF a[1] = b[1] THEN IsSubSeq(Tail(a), Tail(b))
    ELSE IsSubSeq(a, Tail(b))

OtherLines(text) == SelectSeq(Split(text), LAMBDA line : ~IncludesDebug(line))

\* C26: once the exit handler has made the PROCESS_FAILED error, no line of
\* details.stderr and no line of the message includes "[debug]", the lines of
\* stderr without the marker are all among the lines of details.stderr in
\* their original order (they are its only lines unless it is empty), and
\* the message is the prefix followed by details.stderr.
C26_DebugLinesFiltered ==
    exitError # NoExitError =>
        /\ \A k \in 1..Len(Split(exitError.details)) :
              ~IncludesDebug(Split(exitError.details)[k])
        /\ \A k \in 1..Len(Split(exitError.message)) :
              ~IncludesDebug(Split(exitError.message)[k])
        /\ IsSubSeq(OtherLines(stderr), Split(exitError.details))
        /\ exitError.message = MessagePrefix \o exitError.details
        /\ exitError.details # <<>> => Split(exitError.details) = OtherLines(stderr)

\* C26 witness: stderr has a line with the marker split over two writes
\* between two lines without it, and the error was made.
C26_Witness ==
    /\ stderr = <<"x", "\n", "[deb", "ug]", "\n">>
    /\ exitError.details = <<"x", "\n">>

\* ------------------------------------------- synthesizeSafe: execute (retry)

\* const MAX_RETRIES = 5
MAX_RETRIES == 5

\* The path execute() returns.
OutputFile == "outputFile"

\* What one runVoicePeak call can end with: success, or one of spawn()'s errors.
EngineResults == {"ok", "TOO_MANY_PROCESSES", "PROCESS_TIMEOUT", "PROCESS_FAILED"}

ExecPending == [st |-> "pending", value |-> "none", code |-> "none", cause |-> "none"]
ExecReturned(v) == [st |-> "returned", value |-> v, code |-> "none", cause |-> "none"]
ExecThrown(c, e) == [st |-> "thrown", value |-> "none", code |-> c, cause |-> e]

RetryInit ==
    /\ retryPc = "idle"
    /\ attempt = 0
    /\ engineCalls = 0
    /\ errLog = <<>>
    /\ retryOutcome = ExecPending

\* The for statement's test followed by the first statement of its body:
\* runVoicePeak(voicepeakArgs) is called, or the loop is left and the
\* statement after it throws.
LoopHead(a) ==
    IF a <= MAX_RETRIES
    THEN /\ engineCalls' = engineCalls + 1
         /\ retryPc' = "awaitEngine"
         /\ UNCHANGED retryOutcome
    ELSE /\ retryPc' = "thrown"
         /\ retryOutcome' = ExecThrown("SYNTHESIS_FAILED", "unexpected")
         /\ UNCHANGED engineCalls

\* execute() is called: attempt = 1.
ExecuteCalled ==
    /\ retryPc = "idle"
    /\ attempt' = 1
    /\ LoopHead(1)
    /\ UNCHANGED errLog
    /\ UNCHANGED otherThanRetry

\* Faulty variant of the test below: it never recognises the last attempt.
IsLastAttemptNever(a) == a > MAX_RETRIES

\* attempt === MAX_RETRIES
IsLastAttempt(a) == a = MAX_RETRIES

\* Faulty variant of the catch block below: the error caught is thrown on.
CatchBlockRethrows(e) ==
    /\ errLog' = Append(errLog, e)
    /\ retryPc' = "thrown"
    /\ retryOutcome' = ExecThrown(e, e)
    /\ UNCHANGED <<attempt, engineCalls>>

\* The catch block with the error e.
CatchBlock(e) ==
    /\ errLog' = Append(errLog, e)
    /\ IF IsLastAttempt(attempt)
       THEN /\ retryPc' = "thrown"
            /\ retryOutcome' = ExecThrown("SYNTHESIS_FAILED", e)
       ELSE /\ retryPc' = "delay"
            /\ UNCHANGED retryOutcome
    /\ UNCHANGED <<attempt, engineCalls>>

\* `await runVoicePeak(...)` settles with r; on success ensureExists is called.
EngineSettles(r) ==
    /\ retryPc = "awaitEngine"
    /\ IF r = "ok"
       THEN /\ retryPc' = "awaitEnsure"
            /\ UNCHANGED <<attempt, engineCalls, errLog, retryOutcome>>
       ELSE CatchBlock(r)
    /\ UNCHANGED otherThanRetry

\* `await tempFileManager.ensureExists(outputFile)` settles; on success
\* execute() returns outputFile.
EnsureSettles(exists) ==
    /\ retryPc = "awaitEnsure"
    /\ IF exists
       THEN /\ retryPc' = "returned"
            /\ retryOutcome' = ExecReturned(OutputFile)
            /\ UNCHANGED <<attempt, engineCalls, errLog>>
       ELSE CatchBlock("TEMP_FILE_ERROR")
    /\ UNCHANGED otherThanRetry

\* The RETRY_DELAY timer fires: attempt++ and the next iteration begins.
DelayElapses ==
    /\ retryPc = "delay"
    /\ attempt' = attempt + 1
    /\ LoopHead(attempt + 1)
    /\ UNCHANGED errLog
    /\ UNCHANGED otherThanRetry

RetryNext ==
    \/ ExecuteCalled
    \/ \E r \in EngineResults : EngineSettles(r)
    \/ \E exists \in BOOLEAN : EnsureSettles(exists)
    \/ DelayElapses

\* ------------------------------------------------------------ retry: claims

\* The state of a call of execute() that has returned or thrown.
C10_Settled ==
    /\ retryPc = "returned" =>
          /\ retryOutcome = ExecReturned(OutputFile)
          /\ engineCalls = Len(errLog) + 1
          /\ engineCalls <= MAX_RETRIES
    /\ retryPc = "thrown" =>
          /\ engineCalls = MAX_RETRIES
          /\ Len(errLog) = MAX_RETRIES
          /\ retryOutcome = ExecThrown("SYNTHESIS_FAILED", errLog[MAX_RETRIES])
    /\ retryPc \notin {"returned", "thrown"} => retryOutcome = ExecPending

\* C10: execute() returns the output path only from the first attempt that
\* succeeds, after exactly as many engine invocations as attempts made (one
\* more than the failures before it, at most MAX_RETRIES); it throws only
\* after exactly MAX_RETRIES invocations that all failed, with SYNTHESIS_FAILED
\* carrying the last error caught; and once it has returned or thrown it
\* makes no further attempt.
C10_RetryCount ==
    /\ []C10_Settled
    /\ [](engineCalls = attempt /\ engineCalls <= MAX_RETRIES)
    /\ [][(retryPc \in {"returned", "thrown"}) => (retryVars' = retryVars)]_vars

\* C10 witness: all five attempts failed, with different errors, and
\* execute() threw after the fifth.
C10_Witness ==
    /\ retryPc = "thrown"
    /\ engineCalls = MAX_RETRIES
    /\ errLog[1] = "TOO_MANY_PROCESSES"
    /\ errLog[MAX_RETRIES - 1] = "TEMP_FILE_ERROR"
    /\ errLog[MAX_RETRIES] = "PROCESS_TIMEOUT"

\* C19: when ensureExists throws after an engine run that succeeded, the catch
\* block takes the TEMP_FILE_ERROR like any other failure of the attempt: the
\* attempt is spent, execute() does not return, and it either waits for the
\* retry delay (after which the next attempt invokes the engine again) or,
\* on the last attempt, throws SYNTHESIS_FAILED; execute() never throws any
\* other error, and it returns only from an attempt that is not among the
\* failed ones.
C19_AbsentFileIsFailedAttempt ==
    /\ [][EnsureSettles(FALSE) =>
             /\ errLog' = Append(errLog, "TEMP_FILE_ERROR")
             /\ attempt' = attempt /\ engineCalls' = engineCalls
             /\ IF attempt < MAX_RETRIES
                THEN retryPc' = "delay" /\ retryOutcome' = ExecPending
                ELSE /\ retryPc' = "thrown"
                     /\ retryOutcome' =
                           ExecThrown("SYNTHESIS_FAILED", "TEMP_FILE_ERROR")]_vars
    /\ [][(retryPc = "delay" /\ retryPc' # "delay") =>
             /\ attempt' = attempt + 1
             /\ engineCalls' = engineCalls + 1
             /\ retryPc' = "awaitEngine"]_vars
    /\ [](retryOutcome.code \in {"none", "SYNTHESIS_FAILED"})
    /\ [](retryPc = "returned" => attempt = Len(errLog) + 1)

\* C19 witness: the first attempt's engine run succeeded but the file was
\* absent; the second attempt was made and execute() returned from it.
C19_Witness ==
    /\ retryPc = "returned"
    /\ errLog = <<"TEMP_FILE_ERROR">>
    /\ engineCalls = 2

\* ------------------------------------- queued syntheses: queue + retry loop
\* synthesizeSafe hands its execute closure to synthesisQueue.addToQueue, so
\* every queue job is one run of the retry loop, and every attempt is one
\* processManager.spawn() of the engine.

\* How the spawn() call of an attempt stands while execute() awaits it:
\* refused (rejected with TOO_MANY_PROCESSES by the admission test; the slots
\* are shared with playback and narrator listing), spawnError (the engine
\* could not be started, its "error" event follows), or alive (the engine
\* process runs, the promise settles at its "exit" event).
SpawnKinds == {"alive", "refused", "spawnError"}

SynthInit ==
    /\ jobPc = [j \in Jobs |-> "notCalled"]
    /\ jobAttempt = [j \in Jobs |-> 0]
    /\ jobEngine = [j \in Jobs |-> "none"]
    /\ jobOutcome = [j \in Jobs |-> ExecPending]

\* The jobs whose execute() is called in this step of the queue.
CalledNow == {j \in Jobs : execState[j] # "running" /\ execState'[j] = "running"}

\* execute() of the jobs the queue starts in this step: attempt = 1 and
\* runVoicePeak is called, its spawn() being of kind k.
ExecuteBegins(k) ==
    /\ jobPc' = [j \in Jobs |-> IF j \in CalledNow THEN "awaitEngine" ELSE jobPc[j]]
    /\ jobAttempt' = [j \in Jobs |-> IF j \in CalledNow THEN 1 ELSE jobAttempt[j]]
    /\ jobEngine' = [j \in Jobs |-> IF j \in CalledNow THEN k ELSE jobEngine[j]]
    /\ UNCHANGED jobOutcome

\* synthesizeSafe up to its return: addToQueue(execute); when the queue is
\* idle, execute() is called in the same step.
QueuedAdd(k) ==
    /\ AddToQueueBody
    /\ ExecuteBegins(k)
    /\ UNCHANGED otherThanSynth

QueuedItemResumes(i) ==
    /\ ProcessSingleItemResumesBody(i)
    /\ UNCHANGED <<otherThanSynth, synthVars>>

\* processQueue resumes; the next item's execute() is called in the same step.
QueuedLoopResumes(i, k) ==
    /\ ProcessQueueResumesBody(i)
    /\ ExecuteBegins(k)
    /\ UNCHANGED otherThanSynth

QueuedClear ==
    /\ ClearBody
    /\ UNCHANGED <<otherThanSynth, synthVars>>

\* Faulty variant of the catch block's decision below: the error is thrown on.
CatchOutcomeRethrows(a, e) == ExecThrown(e, e)

\* The catch block's decision on attempt a with error e: throw
\* SYNTHESIS_FAILED, or (ExecPending) wait and go round again.
CatchOutcome(a, e) ==
    IF IsLastAttempt(a) THEN ExecThrown("SYNTHESIS_FAILED", e) ELSE ExecPending

\* execute() of job j ends with outcome o: its promise settles.
JobEnds(j, o) ==
    /\ jobPc' = [jobPc EXCEPT ![j] = o.st]
    /\ jobOutcome' = [jobOutcome EXCEPT ![j] = o]
    /\ execState' = [execState EXCEPT
                        ![j] = IF o.st = "returned" THEN "fulfilled" ELSE "rejected"]

\* The catch block of job j with the error e.
JobCatch(j, e) ==
    LET o == CatchOutcome(jobAttempt[j], e)
    IN IF o = ExecPending
       THEN /\ jobPc' = [jobPc EXCEPT ![j] = "delay"]
            /\ UNCHANGED <<jobOutcome, execState>>
       ELSE JobEnds(j, o)

\* What the spawn() call of job j's attempt settles with, the engine process
\* ending in the way `how` if there is one.
EngineOutcome(j, how) ==
    CASE jobEngine[j] = "alive" -> ExitOutcome(how)
      [] jobEngine[j] = "refused" -> SpawnRejected("TOO_MANY_PROCESSES", "none")
      [] jobEngine[j] = "spawnError" -> ErrorOutcome

\* `await runVoicePeak(...)` of job j settles: the engine process, if one was
\* started, has exited; on success ensureExists is called.
JobEngineSettles(j, how) ==
    /\ jobPc[j] = "awaitEngine"
    /\ LET r == EngineOutcome(j, how)
       IN /\ jobEngine' = [jobEngine EXCEPT ![j] = "none"]
          /\ IF r = SpawnResolved
             THEN /\ jobPc' = [jobPc EXCEPT ![j] = "awaitEnsure"]
                  /\ UNCHANGED <<jobOutcome, execState>>
             ELSE JobCatch(j, r.code)
    /\ UNCHANGED jobAttempt
    /\ UNCHANGED <<queue, isProcessing, nextJob, loopPc, loopItem, future,
                   startOrder, settleOrder, clearCalled>>
    /\ UNCHANGED otherThanSynth

\* `await tempFileManager.ensureExists(outputFile)` of job j settles.
JobEnsureSettles(j, exists) ==
    /\ jobPc[j] = "awaitEnsure"
    /\ IF exists
       THEN JobEnds(j, ExecReturned(OutputFile))
       ELSE JobCatch(j, "TEMP_FILE_ERROR")
    /\ UNCHANGED <<jobAttempt, jobEngine>>
    /\ UNCHANGED <<queue, isProcessing, nextJob, loopPc, loopItem, future,
                   startOrder, settleOrder, clearCalled>>
    /\ UNCHANGED otherThanSynth

\* The RETRY_DELAY timer of job j fires: attempt++ and the next iteration
\* calls runVoicePeak, its spawn() being of kind k; after the loop, the throw.
JobDelayElapses(j, k) ==
    /\ jobPc[j] = "delay"
    /\ jobAttempt' = [jobAttempt EXCEPT ![j] = @ + 1]
    /\ IF jobAttempt[j] + 1 <= MAX_RETRIES
       THEN /\ jobPc' = [jobPc EXCEPT ![j] = "awaitEngine"]
            /\ jobEngine' = [jobEngine EXCEPT ![j] = k]
            /\ UNCHANGED <<jobOutcome, execState>>
       ELSE /\ JobEnds(j, ExecThrown("SYNTHESIS_FAILED", "unexpected"))
            /\ UNCHANGED jobEngine
    /\ UNCHANGED <<queue, isProcessing, nextJob, loopPc, loopItem, future,
                   startOrder, settleOrder, clearCalled>>
    /\ UNCHANGED otherThanSynth

SynthNext ==
    \/ \E k \in SpawnKinds : QueuedAdd(k)
    \/ \E i \in Jobs : QueuedItemResumes(i)
    \/ \E i \in Jobs, k \in SpawnKinds : QueuedLoopResumes(i, k)
    \/ QueuedClear
    \/ \E j \in Jobs, how \in ExitKinds : JobEngineSettles(j, how)
    \/ \E j \in Jobs, exists \in BOOLEAN : JobEnsureSettles(j, exists)
    \/ \E j \in Jobs, k \in SpawnKinds : JobDelayElapses(j, k)

\* ----------------------------------------------- queued syntheses: claims

JobRunning(j) == jobPc[j] \in {"awaitEngine", "awaitEnsure", "delay"}
JobDone(j) == jobPc[j] \in {"returned", "thrown"}
EngineAlive(j) == jobEngine[j] = "alive"

\* C11: while a queued job's execute() is between attempts or inside one, its
\* future is pending and nothing has been thrown; execute() throws nothing
\* but SYNTHESIS_FAILED, and only on attempt MAX_RETRIES; the future resolves
\* only with the job's own result, which is the output path, and is rejected
\* only with the job's SYNTHESIS_FAILED after MAX_RETRIES attempts, or with
\* QUEUE_CLEARED for a job whose execute() was never called.
C11_FailuresStayLocal ==
    \A j \in Jobs :
        /\ JobRunning(j) => future[j].st = "pending" /\ jobOutcome[j] = ExecPending
        /\ jobOutcome[j].code \in {"none", "SYNTHESIS_FAILED"}
        /\ jobOutcome[j].st = "thrown" => jobAttempt[j] = MAX_RETRIES
        /\ future[j].st = "resolved" =>
              /\ future[j] = Resolved(ResultOf(j))
              /\ jobOutcome[j] = ExecReturned(OutputFile)
        /\ future[j].st = "rejected" =>
              \/ /\ future[j] = Rejected(QueueCleared)
                 /\ jobPc[j] = "notCalled"
              \/ /\ future[j] = Rejected(ErrorOf(j))
                 /\ jobOutcome[j].code = "SYNTHESIS_FAILED"
                 /\ jobAttempt[j] = MAX_RETRIES

\* C11 witness: the three ways a future settles, in one state: the first job
\* was rejected with SYNTHESIS_FAILED after an absent output file on its last
\* attempt, a queued job was rejected by clear(), and a job resolved with the
\* output path on its third attempt.
C11_Witness ==
    /\ future[1] = Rejected(ErrorOf(1))
    /\ jobOutcome[1] = ExecThrown("SYNTHESIS_FAILED", "TEMP_FILE_ERROR")
    /\ \E a, b \in Jobs :
          /\ future[a] = Rejected(QueueCleared)
          /\ future[b] = Resolved(ResultOf(b))
          /\ jobOutcome[b] = ExecReturned(OutputFile)
          /\ jobAttempt[b] = 3

\* C20: at most one engine process started by queue jobs is alive; an engine
\* process is alive only inside an attempt of a job whose execute() is
\* running; and when a job's execute() has been called, every job submitted
\* before it has finished its execute() or was never started (rejected by
\* clear()).
C20_OneSynthesisAtATime ==
    /\ Cardinality({j \in Jobs : EngineAlive(j)}) <= 1
    /\ Cardinality({j \in Jobs : JobRunning(j)}) <= 1
    /\ \A j \in Jobs :
          EngineAlive(j) => execState[j] = "running" /\ jobPc[j] = "awaitEngine"
    /\ \A j, k \in Jobs :
          (j < k /\ jobPc[k] # "notCalled") =>
              \/ JobDone(j)
              \/ jobPc[j] = "notCalled" /\ future[j] = Rejected(QueueCleared)

\* C20 witness: the first job used all its attempts and failed; the second
\* job's engine process is alive in a retry while a third job waits in the
\* queue.
C20_Witness ==
    /\ jobPc[1] = "thrown"
    /\ EngineAlive(2)
    /\ jobAttempt[2] > 1
    /\ InQueue(3)

\* ------------------------------------------------------------ NarratorCache

\* The narrator names a caller can pass: none ("" stands for undefined and the
\* empty string), one the engine lists, one it does not list.
Names == {"", "known", "unknown"}

CacheInit ==
    /\ narrators = 0
    /\ fresh = FALSE
    /\ fetchPromise = 0
    /\ fetchState = [f \in Fetches |-> "none"]
    /\ nextFetch = 1
    /\ nextCall = 1
    /\ callOp = [c \in Calls |-> "none"]
    /\ callName = [c \in Calls |-> ""]
    /\ callResult = [c \in Calls |-> 0]
    /\ callStarted = [c \in Calls |-> FALSE]
    /\ callSaw = [c \in Calls |-> {}]

InFlight == {f \in Fetches : fetchState[f] = "inFlight"}

\* A method call is made: it gets the next id.
CallMade(op, name) ==
    /\ nextCall <= MaxCalls
    /\ nextCall' = nextCall + 1
    /\ callOp' = [callOp EXCEPT ![nextCall] = op]
    /\ callName' = [callName EXCEPT ![nextCall] = name]
    /\ callSaw' = [callSaw EXCEPT ![nextCall] = InFlight]

\* Faulty variant of the test below: the age of the Set is not looked at.
CacheValidIgnoresTtl(narr, fr) == narr # 0

\* this.narrators && now - this.lastFetch < this.CACHE_TTL
CacheValid(narr, fr) == narr # 0 /\ fr

\* getAvailableNarrators() up to its return or its await, for call c, the
\* fields this.narrators and the TTL test being narr and fr: the cached Set,
\* or the promise of the fetch in flight, or a new fetch.
GetFrom(c, narr, fr) ==
    IF CacheValid(narr, fr)
    THEN /\ callResult' = [callResult EXCEPT ![c] = narr]
         /\ UNCHANGED <<fetchPromise, fetchState, nextFetch, callStarted>>
    ELSE IF fetchPromise # 0
         THEN /\ callResult' = [callResult EXCEPT ![c] = fetchPromise]
              /\ UNCHANGED <<fetchPromise, fetchState, nextFetch, callStarted>>
         ELSE /\ nextFetch <= MaxFetches
              /\ fetchPromise' = nextFetch
              /\ fetchState' = [fetchState EXCEPT ![nextFetch] = "inFlight"]
              /\ nextFetch' = nextFetch + 1
              /\ callResult' = [callResult EXCEPT ![c] = nextFetch]
              /\ callStarted' = [callStarted EXCEPT ![c] = TRUE]

\* getAvailableNarrators()
GetAvailableNarrators ==
    /\ CallMade("get", "")
    /\ GetFrom(nextCall, narrators, fresh)
    /\ UNCHANGED <<narrators, fresh>>
    /\ UNCHANGED otherThanCache

\* isValidNarrator(name): true at once for no name, else
\* (await getAvailableNarrators()).has(name).
IsValidNarrator(name) ==
    /\ CallMade("isValid", name)
    /\ IF name = ""
       THEN UNCHANGED <<fetchPromise, fetchState, nextFetch, callResult, callStarted>>
       ELSE GetFrom(nextCall, narrators, fresh)
    /\ UNCHANGED <<narrators, fresh>>
    /\ UNCHANGED otherThanCache

\* Faulty variant of the operator below: nothing is reset.
InvalidateNothing(narr, fr) == [narr |-> narr, fr |-> fr]

\* this.narrators = null; this.lastFetch = 0.
Invalidate(narr, fr) == [narr |-> 0, fr |-> FALSE]

\* refresh(): narrators = null, lastFetch = 0, then getAvailableNarrators().
Refresh ==
    /\ CallMade("refresh", "")
    /\ narrators' = Invalidate(narrators, fresh).narr
    /\ fresh' = Invalidate(narrators, fresh).fr
    /\ GetFrom(nextCall, Invalidate(narrators, fresh).narr, Invalidate(narrators, fresh).fr)
    /\ UNCHANGED otherThanCache

\* The promise of fetch f settles, and the call that started it resumes:
\* fetchNarrators returns the Set of the names listed, or, from its catch, an
\* empty Set; then this.narrators, this.lastFetch and the finally block.
FetchSettles(f, ok) ==
    /\ fetchState[f] = "inFlight"
    /\ fetchState' = [fetchState EXCEPT ![f] = IF ok THEN "ok" ELSE "failed"]
    /\ narrators' = f
    /\ fresh' = TRUE
    /\ fetchPromise' = 0
    /\ UNCHANGED <<nextFetch, nextCall, callOp, callName, callResult,
                   callStarted, callSaw>>
    /\ UNCHANGED otherThanCache

\* clear()
CacheClear ==
    /\ narrators' = 0
    /\ fresh' = FALSE
    /\ fetchPromise' = 0
    /\ UNCHANGED <<fetchState, nextFetch, nextCall, callOp, callName,
                   callResult, callStarted, callSaw>>
    /\ UNCHANGED otherThanCache

\* CACHE_TTL passes since lastFetch.
TtlExpires ==
    /\ fresh
    /\ fresh' = FALSE
    /\ UNCHANGED <<narrators, fetchPromise, fetchState, nextFetch, nextCall,
                   callOp, callName, callResult, callStarted, callSaw>>
    /\ UNCHANGED otherThanCache

\* Set.has(name) on the Set made by fetch f.
SetHas(f, name) == fetchState[f] = "ok" /\ name = "known"

\* What call c of isValidNarrator answers: "pending" while its Set is awaited.
Answer(c) ==
    IF callName[c] = "" THEN "true"
    ELSE IF fetchState[callResult[c]] = "inFlight" THEN "pending"
    ELSE IF SetHas(callResult[c], callName[c]) THEN "true" ELSE "false"

CacheNext ==
    \/ GetAvailableNarrators
    \/ \E name \in Names : IsValidNarrator(name)
    \/ Refresh
    \/ \E f \in Fetches, ok \in BOOLEAN : FetchSettles(f, ok)
    \/ CacheClear
    \/ TtlExpires

\* ----------------------------------------------------- NarratorCache: claims

\* Call c ran getAvailableNarrators (directly, or inside isValidNarrator or
\* refresh).
CalledGet(c) == callResult[c] # 0
\* Call c was answered from this.narrators, without awaiting any fetch.
ServedFromCache(c) == CalledGet(c) /\ ~callStarted[c] /\ callSaw[c] = {}

\* C13: a getAvailableNarrators() call made while a fetch is in flight starts
\* no fetch, and resolves to the Set of a fetch that was in flight when it
\* was made.
C13_JoinsFetchInFlight ==
    \A c \in Calls :
        (CalledGet(c) /\ callSaw[c] # {}) =>
            ~callStarted[c] /\ callResult[c] \in callSaw[c]

\* C14: at most one narrator fetch is in flight in every reachable state.
C14_SingleFlight == Cardinality(InFlight) <= 1

\* C15: the Set of a failed fetch is never a usable cache entry (present and
\* within its TTL), and no call is answered from the cache with the Set of a
\* failed fetch.
C15_FailedFetchNotCached ==
    /\ (narrators # 0 /\ fresh) => fetchState[narrators] # "failed"
    /\ \A c \in Calls : ServedFromCache(c) => fetchState[callResult[c]] # "failed"

\* C16: no isValidNarrator(name) call answers false from the Set of a failed
\* fetch.
C16_FailedFetchDoesNotReject ==
    \A c \in Calls :
        (callOp[c] = "isValid" /\ Answer(c) = "false") =>
            fetchState[callResult[c]] # "failed"

\* C31: a getAvailableNarrators() call made while a Set is cached and within
\* its TTL resolves to that Set and starts no fetch; a call made in any other
\* case while no fetch is in flight starts exactly one fetch and resolves to
\* the Set of that fetch.
C31_CachedOrOneFetch ==
    /\ [][(GetAvailableNarrators /\ narrators # 0 /\ fresh) =>
             /\ callResult'[nextCall] = narrators
             /\ fetchState' = fetchState
             /\ nextFetch' = nextFetch
             /\ fetchPromise' = fetchPromise]_vars
    /\ [][(GetAvailableNarrators /\ ~(narrators # 0 /\ fresh) /\ InFlight = {}) =>
             /\ nextFetch' = nextFetch + 1
             /\ InFlight' = {nextFetch}
             /\ callResult'[nextCall] = nextFetch
             /\ callStarted'[nextCall]]_vars

\* C31 witness: a getAvailableNarrators() call was answered from the cache
\* with the Set of the first fetch, and a later one, made after the TTL had
\* passed, started the second fetch.
C31_Witness ==
    \E c, d \in Calls :
        /\ c < d
        /\ callOp[c] = "get" /\ ServedFromCache(c) /\ callResult[c] = 1
        /\ callOp[d] = "get" /\ callStarted[d] /\ callResult[d] = 2
        /\ callSaw[d] = {}

\* C32: a refresh() made while a Set is cached and within its TTL empties the
\* cache, starts a new fetch and is answered by that fetch; and every call
\* made after a refresh() that started a fetch is answered by that fetch, by
\* a later one, or by one that was still in flight when refresh() was
\* called, never by a Set that was already there.
C32_RefreshRefetches ==
    /\ [][(Refresh /\ narrators # 0 /\ fresh) =>
             /\ narrators' = 0
             /\ fetchState[nextFetch] = "none"
             /\ fetchState'[nextFetch] = "inFlight"
             /\ fetchPromise' = nextFetch
             /\ callResult'[nextCall] = nextFetch
             /\ callResult'[nextCall] # narrators]_vars
    /\ [](\A c, d \in Calls :
            (callOp[c] = "refresh" /\ callStarted[c] /\ c < d /\ CalledGet(d)) =>
                callResult[d] >= callResult[c] \/ callResult[d] \in callSaw[c])

\* C32 witness: the second call was a refresh() made when the Set of the
\* first fetch was cached and no fetch was in flight; it started the second
\* fetch, and the getAvailableNarrators() after it got the second fetch too.
C32_Witness ==
    /\ callOp[1] = "get" /\ callResult[1] = 1
    /\ callOp[2] = "refresh" /\ callStarted[2] /\ callSaw[2] = {} /\ callResult[2] = 2
    /\ fetchState[1] = "ok"
    /\ callOp[3] = "get" /\ callResult[3] = 2

\* ---------------------------------------------------------- TempFileManager

\* What the file system has at a path: nothing, a regular file modified
\* within the last hour ("file") or earlier ("old"), or a directory.
DiskKinds == {"absent", "file", "old", "dir"}

\* The promise ensureExists() returns: pending, resolved, or rejected with a
\* VoicepeakError (code TEMP_FILE_ERROR and its message) or with the error
\* fs.stat threw (code "statError": any error other than ENOENT).
NoEnsure == [st |-> "none", code |-> "none", message |-> "none"]
EnsurePending == [st |-> "pending", code |-> "none", message |-> "none"]
EnsureResolved == [st |-> "resolved", code |-> "none", message |-> "none"]
EnsureRejected(code, message) == [st |-> "rejected", code |-> code, message |-> message]

TmpInit ==
    /\ tempFiles = {}
    /\ nextPath = 1
    /\ disk = [p \in Paths |-> "absent"]
    /\ interval = "set"
    /\ unlinkDirect = [p \in Paths |-> 0]
    /\ unlinkAll = {}
    /\ sweepPc = "idle"
    /\ sweepAt = 0
    /\ lastIgnored = -1
    /\ allPc = "idle"
    /\ cleanupThrew = FALSE
    /\ ensureAt = -1
    /\ ensureResult = NoEnsure

\* create(): a new unique path is tracked and returned; no file is made.
Create ==
    /\ nextPath <= MaxPaths
    /\ tempFiles' = tempFiles \cup {nextPath}
    /\ nextPath' = nextPath + 1
    /\ UNCHANGED <<disk, interval, unlinkDirect, unlinkAll, sweepPc, sweepAt,
                   lastIgnored, allPc, cleanupThrew>>
    /\ UNCHANGED otherThanTmp

\* A file is written at a path that is known (the external path, or one
\* create() has returned), by the engine or anything else.
FileWritten(p) ==
    /\ p < nextPath
    /\ disk[p] = "absent"
    /\ disk' = [disk EXCEPT ![p] = "file"]
    /\ UNCHANGED <<tempFiles, nextPath, interval, unlinkDirect, unlinkAll,
                   sweepPc, sweepAt, lastIgnored,
                   allPc, cleanupThrew>>
    /\ UNCHANGED otherThanTmp

\* A directory is made at a known path that has nothing.
DirMade(p) ==
    /\ p < nextPath
    /\ disk[p] = "absent"
    /\ disk' = [disk EXCEPT ![p] = "dir"]
    /\ UNCHANGED <<tempFiles, nextPath, interval, unlinkDirect, unlinkAll,
                   sweepPc, sweepAt, lastIgnored, allPc, cleanupThrew>>
    /\ UNCHANGED otherThanTmp

\* An hour passes since the file at p was last modified.
FileAges(p) ==
    /\ p # 0
    /\ disk[p] = "file"
    /\ disk' = [disk EXCEPT ![p] = "old"]
    /\ UNCHANGED <<tempFiles, nextPath, interval, unlinkDirect, unlinkAll,
                   sweepPc, sweepAt, lastIgnored,
                   allPc, cleanupThrew>>
    /\ UNCHANGED otherThanTmp

\* Faulty variant of the test below: every path passes.
IsTrackedAlways(tracked, p) == TRUE

\* cleanup()'s test: this.tempFiles.has(filePath).
IsTracked(tracked, p) == p \in tracked

\* The fs.unlink calls for path p that are issued and not settled, and all
\* of them.
SweepAwaitsUnlink(p) == sweepPc = "unlink" /\ sweepAt = p
PendingUnlinks(p) ==
    unlinkDirect[p] + (IF p \in unlinkAll THEN 1 ELSE 0)
                    + (IF SweepAwaitsUnlink(p) THEN 1 ELSE 0)
RECURSIVE SumUpTo(_)
SumUpTo(p) == IF p < 0 THEN 0 ELSE PendingUnlinks(p) + SumUpTo(p - 1)
PendingTotal == SumUpTo(MaxPaths)

\* cleanup(p) called from outside, up to its return (p is not tracked) or its
\* `await fs.unlink(p)`.
CleanupCalled(p) ==
    /\ p < nextPath
    /\ IF IsTracked(tempFiles, p)
       THEN /\ PendingTotal < MaxOps
            /\ unlinkDirect' = [unlinkDirect EXCEPT ![p] = @ + 1]
            /\ UNCHANGED lastIgnored
       ELSE /\ lastIgnored' = p
            /\ UNCHANGED unlinkDirect
    /\ UNCHANGED <<tempFiles, nextPath, disk, interval, unlinkAll, sweepPc, sweepAt,
                   allPc, cleanupThrew>>
    /\ UNCHANGED otherThanTmp

\* The for...of loop of cleanupStale() moves on from path p, the tracked set
\* being `tracked`: fs.stat of the next tracked path, or the end of the loop.
SweepMovesOn(tracked, p) ==
    LET rest == {q \in tracked : q > p}
    IN IF rest = {}
       THEN sweepPc' = "idle" /\ sweepAt' = 0
       ELSE /\ sweepPc' = "stat"
            /\ sweepAt' = CHOOSE q \in rest : \A r \in rest : q <= r

\* What fs.unlink(p) does to the file system: the file is removed unless the
\* call fails (nothing there, or `fails`: any other error).
Unlinked(p, fails) ==
    IF ~fails /\ disk[p] \in {"file", "old"} THEN [disk EXCEPT ![p] = "absent"] ELSE disk

\* fs.unlink(p) rejects: nothing is there (ENOENT), or `fails`.
UnlinkRejects(p, fails) == fails \/ disk[p] = "absent"

\* Faulty variant of the operator below: the catch block forgets the delete.
AfterUnlinkKeepsOnError(tracked, p, rejected) ==
    IF rejected THEN tracked ELSE tracked \ {p}

\* cleanup() after its `await fs.unlink`: tempFiles.delete(filePath), in the
\* try block and in the catch block alike.
AfterUnlink(tracked, p, rejected) == tracked \ {p}

\* Faulty variant of the operator below: an error other than ENOENT is
\* thrown again.
CleanupRejectsLogged(p, fails) == fails

\* Whether cleanup()'s promise is rejected: its catch block logs an error
\* other than ENOENT and throws nothing.
CleanupRejects(p, fails) == FALSE

\* The fs.unlink(p) of a cleanup(p) called from outside settles, and
\* cleanup() resumes.
DirectUnlinkSettles(p, fails) ==
    /\ unlinkDirect[p] > 0
    /\ unlinkDirect' = [unlinkDirect EXCEPT ![p] = @ - 1]
    /\ disk' = Unlinked(p, fails)
    /\ tempFiles' = AfterUnlink(tempFiles, p, UnlinkRejects(p, fails))
    /\ cleanupThrew' = (cleanupThrew \/ CleanupRejects(p, fails))
    /\ UNCHANGED <<nextPath, interval, unlinkAll, sweepPc, sweepAt, lastIgnored,
                   allPc>>
    /\ UNCHANGED otherThanTmp

\* Faulty variant of the operator below: only the first tracked path.
CleanupAllTargetsFirst(tracked) ==
    {p \in tracked : \A q \in tracked : p <= q}

\* The paths cleanupAll() calls cleanup() for: Array.from(this.tempFiles).
CleanupAllTargets(tracked) == tracked

\* cleanupAll() up to its await: clearInterval, then cleanup(file) for every
\* tracked path, each up to its own `await fs.unlink`.
CleanupAll ==
    /\ allPc = "idle"
    /\ PendingTotal + Cardinality(tempFiles) <= MaxOps
    /\ interval' = "cleared"
    /\ unlinkAll' = CleanupAllTargets(tempFiles)
    /\ allPc' = "await"
    /\ UNCHANGED <<tempFiles, nextPath, disk, unlinkDirect, sweepPc, sweepAt,
                   lastIgnored, cleanupThrew>>
    /\ UNCHANGED otherThanTmp

\* One fs.unlink(p) of cleanupAll() settles and its cleanup(p) resumes; a
\* rejection of that cleanup() would be swallowed by the .catch(() => {}).
AllUnlinkSettles(p, fails) ==
    /\ p \in unlinkAll
    /\ unlinkAll' = unlinkAll \ {p}
    /\ disk' = Unlinked(p, fails)
    /\ tempFiles' = AfterUnlink(tempFiles, p, UnlinkRejects(p, fails))
    /\ cleanupThrew' = (cleanupThrew \/ CleanupRejects(p, fails))
    /\ UNCHANGED <<nextPath, interval, unlinkDirect, sweepPc, sweepAt, lastIgnored,
                   allPc>>
    /\ UNCHANGED otherThanTmp

\* Every cleanup() of cleanupAll() has settled (or there was none):
\* Promise.allSettled resolves and cleanupAll() resumes with tempFiles.clear().
CleanupAllResumes ==
    /\ allPc = "await"
    /\ unlinkAll = {}
    /\ allPc' = "idle"
    /\ tempFiles' = {}
    /\ UNCHANGED <<nextPath, disk, interval, unlinkDirect, unlinkAll, sweepPc,
                   sweepAt, lastIgnored, cleanupThrew>>
    /\ UNCHANGED otherThanTmp

\* The cleanupTimer interval fires: cleanupStale() up to its first await.
SweepStarts ==
    /\ interval = "set"
    /\ sweepPc = "idle"
    /\ tempFiles # {}
    /\ SweepMovesOn(tempFiles, 0)
    /\ UNCHANGED <<tempFiles, nextPath, disk, interval, unlinkDirect, unlinkAll,
                   lastIgnored, allPc, cleanupThrew>>
    /\ UNCHANGED otherThanTmp

\* now - stats.mtimeMs > 60 * 60 * 1000
IsStale(kind) == kind = "old"

\* `await fs.stat(filePath)` of cleanupStale() settles: it throws when nothing
\* is there (the catch untracks the path); a stale file goes to cleanup(),
\* which returns at once if the path is not tracked any more; anything else
\* is passed over.
SweepStatSettles ==
    /\ sweepPc = "stat"
    /\ LET p == sweepAt
       IN IF disk[p] = "absent"
          THEN /\ tempFiles' = tempFiles \ {p}
               /\ SweepMovesOn(tempFiles \ {p}, p)
          ELSE IF IsStale(disk[p]) /\ IsTracked(tempFiles, p)
               THEN /\ PendingTotal < MaxOps
                    /\ sweepPc' = "unlink"
                    /\ UNCHANGED <<tempFiles, sweepAt>>
               ELSE /\ SweepMovesOn(tempFiles, p)
                    /\ UNCHANGED tempFiles
    /\ UNCHANGED <<nextPath, disk, interval, unlinkDirect, unlinkAll, lastIgnored,
                   allPc, cleanupThrew>>
    /\ UNCHANGED otherThanTmp

\* The fs.unlink of cleanupStale()'s cleanup() settles; cleanup() resumes
\* (tempFiles.delete), then the loop of cleanupStale().
SweepUnlinkSettles(fails) ==
    /\ sweepPc = "unlink"
    /\ disk' = Unlinked(sweepAt, fails)
    /\ tempFiles' = AfterUnlink(tempFiles, sweepAt, UnlinkRejects(sweepAt, fails))
    /\ cleanupThrew' = (cleanupThrew \/ CleanupRejects(sweepAt, fails))
    /\ SweepMovesOn(tempFiles', sweepAt)
    /\ UNCHANGED <<nextPath, interval, unlinkDirect, unlinkAll, lastIgnored, allPc>>
    /\ UNCHANGED otherThanTmp

\* ensureExists(p) up to its `await fs.stat(filePath)`.
EnsureCalled(p) ==
    /\ p < nextPath
    /\ ensureAt = -1
    /\ ensureAt' = p
    /\ ensureResult' = EnsurePending
    /\ UNCHANGED tmpVars
    /\ UNCHANGED otherThanEnsure

\* Faulty variant of the try block below: stats.isFile() is not looked at.
EnsureTryNoFileCheck(kind, statFails) ==
    IF statFails THEN "statError"
    ELSE IF kind = "absent" THEN "ENOENT"
    ELSE "none"

\* What the try block of ensureExists() throws ("none": nothing): the error
\* of fs.stat, or the VoicepeakError for something that is not a regular file.
EnsureTry(kind, statFails) ==
    IF statFails THEN "statError"
    ELSE IF kind = "absent" THEN "ENOENT"
    ELSE IF kind = "dir" THEN "TEMP_FILE_ERROR"
    ELSE "none"

\* The catch block of ensureExists(): ENOENT becomes a TEMP_FILE_ERROR, any
\* other error is thrown again as it is.
EnsureCatch(thrown) ==
    IF thrown = "none" THEN EnsureResolved
    ELSE IF thrown = "ENOENT"
         THEN EnsureRejected("TEMP_FILE_ERROR", "Temporary file was not created")
    ELSE IF thrown = "TEMP_FILE_ERROR"
         THEN EnsureRejected("TEMP_FILE_ERROR", "Temporary file creation failed")
    ELSE EnsureRejected(thrown, "none")

\* The fs.stat of ensureExists() settles with what the file system has at the
\* path at that time (statFails: it rejects with an error other than ENOENT),
\* and ensureExists() runs to its end.
EnsureStatSettles(statFails) ==
    /\ ensureAt # -1
    /\ ensureResult' = EnsureCatch(EnsureTry(disk[ensureAt], statFails))
    /\ ensureAt' = -1
    /\ UNCHANGED tmpVars
    /\ UNCHANGED otherThanEnsure

\* ensureExists() next to create(), cleanup() and the file system.
EnsureNext ==
    \/ Create
    \/ \E p \in Paths : FileWritten(p)
    \/ \E p \in Paths : DirMade(p)
    \/ \E p \in Paths : CleanupCalled(p)
    \/ \E p \in Paths, fails \in BOOLEAN : DirectUnlinkSettles(p, fails)
    \/ \E p \in Paths : EnsureCalled(p)
    \/ \E statFails \in BOOLEAN : EnsureStatSettles(statFails)

\* get fileCount()
fileCount == Cardinality(tempFiles)

TmpNext ==
    \/ Create
    \/ \E p \in Paths : FileWritten(p)
    \/ \E p \in Paths : FileAges(p)
    \/ \E p \in Paths : CleanupCalled(p)
    \/ \E p \in Paths, fails \in BOOLEAN : DirectUnlinkSettles(p, fails)
    \/ CleanupAll
    \/ \E p \in Paths, fails \in BOOLEAN : AllUnlinkSettles(p, fails)
    \/ CleanupAllResumes
    \/ SweepStarts
    \/ SweepStatSettles
    \/ \E fails \in BOOLEAN : SweepUnlinkSettles(fails)

\* ------------------------------------------- synthesize_and_play handler

PlayInit ==
    /\ playPc = "idle"
    /\ playFile = -1
    /\ playOutcome = "none"

\* The handler is called; synthesizeSafe(options) runs up to its await of the
\* queue: outputFile is options.outputPath (the external path) or, without
\* one (useTemp), the path tempFileManager.create() returns.
PlayCalled(useTemp) ==
    /\ playPc = "idle"
    /\ playPc' = "synth"
    /\ IF useTemp
       THEN /\ nextPath <= MaxPaths
            /\ playFile' = nextPath
            /\ tempFiles' = tempFiles \cup {nextPath}
            /\ nextPath' = nextPath + 1
       ELSE /\ playFile' = 0
            /\ UNCHANGED <<tempFiles, nextPath>>
    /\ UNCHANGED <<playOutcome, disk, interval, unlinkDirect, unlinkAll, sweepPc,
                   sweepAt, lastIgnored, allPc, cleanupThrew>>
    /\ UNCHANGED otherThanPlay

\* `await synthesizeSafe(options)` settles: with the output file, which the
\* engine has written, or with an error, which ends the handler.
PlaySynthEnds(ok) ==
    /\ playPc = "synth"
    /\ IF ok
       THEN /\ disk[playFile] \in {"file", "old"}
            /\ playPc' = "play"
            /\ UNCHANGED playOutcome
       ELSE /\ playPc' = "idle"
            /\ playOutcome' = "synthFailed"
    /\ UNCHANGED playFile
    /\ UNCHANGED tmpVars
    /\ UNCHANGED otherThanPlay

\* Faulty variant of the operator below: cleanup only after a playback that
\* succeeded.
CleansUpAfterSuccessOnly(ok) == ok

\* Whether tempFileManager.cleanup(outputFile) is called when playAudio has
\* settled: it is in the finally block.
CleansUpAfter(ok) == TRUE

\* `await playAudio(outputFile)` settles (ok: resolved); the finally block
\* calls cleanup(outputFile), which returns at once for a path that is not
\* tracked and else reaches its `await fs.unlink`.
PlayEnds(ok) ==
    /\ playPc = "play"
    /\ playOutcome' = IF ok THEN "played" ELSE "playFailed"
    /\ IF CleansUpAfter(ok) /\ IsTracked(tempFiles, playFile)
       THEN /\ PendingTotal < MaxOps
            /\ unlinkDirect' = [unlinkDirect EXCEPT ![playFile] = @ + 1]
            /\ playPc' = "unlink"
            /\ UNCHANGED lastIgnored
       ELSE /\ lastIgnored' = IF CleansUpAfter(ok) THEN playFile ELSE lastIgnored
            /\ playPc' = "idle"
            /\ UNCHANGED unlinkDirect
    /\ UNCHANGED <<playFile, tempFiles, nextPath, disk, interval, unlinkAll, sweepPc,
                   sweepAt, allPc, cleanupThrew>>
    /\ UNCHANGED otherThanPlay

\* The fs.unlink of the handler's cleanup() settles; cleanup() resumes, then
\* the handler ends.
PlayUnlinkSettles(fails) ==
    /\ playPc = "unlink"
    /\ unlinkDirect' = [unlinkDirect EXCEPT ![playFile] = @ - 1]
    /\ disk' = Unlinked(playFile, fails)
    /\ tempFiles' = AfterUnlink(tempFiles, playFile, UnlinkRejects(playFile, fails))
    /\ cleanupThrew' = (cleanupThrew \/ CleanupRejects(playFile, fails))
    /\ playPc' = "idle"
    /\ UNCHANGED <<playFile, playOutcome, nextPath, interval, unlinkAll, sweepPc,
                   sweepAt, lastIgnored, allPc>>
    /\ UNCHANGED otherThanPlay

\* The handler next to the engine writing files, the sweep and cleanupAll().
PlayNext ==
    \/ \E useTemp \in BOOLEAN : PlayCalled(useTemp)
    \/ \E ok \in BOOLEAN : PlaySynthEnds(ok)
    \/ \E ok \in BOOLEAN : PlayEnds(ok)
    \/ \E fails \in BOOLEAN : PlayUnlinkSettles(fails)
    \/ \E p \in Paths : FileWritten(p)
    \/ \E p \in Paths : FileAges(p)
    \/ CleanupAll
    \/ \E p \in Paths, fails \in BOOLEAN : AllUnlinkSettles(p, fails)
    \/ CleanupAllResumes
    \/ SweepStarts
    \/ SweepStatSettles
    \/ \E fails \in BOOLEAN : SweepUnlinkSettles(fails)

\* --------------------------------------------------- TempFileManager: claims

\* The paths create() has returned.
CreatedPaths == 1..(nextPath - 1)
\* An fs.unlink(p) is issued in this step.
UnlinkIssued(p) == PendingUnlinks(p)' > PendingUnlinks(p)
CleanupStep == \E p \in Paths : CleanupCalled(p)

\* C12: every fs.unlink the manager issues is for a path create() returned
\* that is tracked when the call is issued; a cleanup(p) of a path that is
\* not tracked changes neither the file system nor the tracked set nor the
\* pending deletions; only paths of create() are ever tracked; and a file
\* disappears only at a path of create() with a pending fs.unlink.
C12_DeletesOnlyOwnPaths ==
    /\ [][\A p \in Paths :
             UnlinkIssued(p) => p \in tempFiles /\ p \in CreatedPaths]_vars
    /\ [][\A p \in Paths :
             (CleanupCalled(p) /\ p \notin tempFiles) =>
                /\ disk' = disk
                /\ tempFiles' = tempFiles
                /\ \A q \in Paths : PendingUnlinks(q)' = PendingUnlinks(q)]_vars
    /\ [][\A p \in Paths :
             (disk[p] # "absent" /\ disk'[p] = "absent") =>
                p \in CreatedPaths /\ PendingUnlinks(p) > 0]_vars
    /\ [](tempFiles \subseteq CreatedPaths)
    /\ [](\A p \in Paths : PendingUnlinks(p) > 0 => p \in CreatedPaths)

\* C12 witness: the latest cleanup() that returned at once was called with
\* the external path, and the file there still exists, while the first path
\* of create() is untracked with no file left and the second is tracked
\* with a stale file.
C12_Witness ==
    /\ lastIgnored = 0
    /\ disk[0] = "file"
    /\ nextPath > 1
    /\ 1 \notin tempFiles
    /\ disk[1] = "absent"
    /\ disk[2] = "old"
    /\ 2 \in tempFiles

\* C27: when the fs.unlink of a cleanup(p) settles, whether it removed the
\* file, failed or found nothing, p is untracked and no cleanup() promise has
\* ever been rejected; a path of create() that is untracked stays untracked;
\* and a cleanup(p) of such a path issues no fs.unlink and changes neither
\* the file system nor the tracked set.
C27_CleanupUntracksAlways ==
    /\ [][\A p \in Paths : \A fails \in BOOLEAN :
             DirectUnlinkSettles(p, fails) => p \notin tempFiles']_vars
    /\ [](~cleanupThrew)
    /\ [][\A p \in CreatedPaths : p \notin tempFiles => p \notin tempFiles']_vars
    /\ [][\A p \in CreatedPaths :
             (CleanupCalled(p) /\ p \notin tempFiles) =>
                /\ disk' = disk
                /\ tempFiles' = tempFiles
                /\ \A q \in Paths : PendingUnlinks(q)' = PendingUnlinks(q)]_vars

\* C27 witness: cleanupAll() was never called and nothing is pending; the
\* only path of create() is untracked while a file is there, and the latest
\* cleanup() of it returned at once.
C27_Witness ==
    /\ nextPath = 2
    /\ 1 \notin tempFiles
    /\ disk[1] = "file"
    /\ lastIgnored = 1
    /\ interval = "set" /\ sweepPc = "idle"
    /\ PendingTotal = 0

\* C28: cleanupAll() issues an fs.unlink for every path that is tracked when
\* it is called; it completes only when all of them have settled, and then
\* fileCount is 0; an fs.unlink of it that fails leaves the others pending,
\* and each of them that succeeds removes its file.
C28_CleanupAllAttemptsAll ==
    /\ [][CleanupAll => \A p \in tempFiles : UnlinkIssued(p) /\ p \in unlinkAll']_vars
    /\ [][CleanupAllResumes => fileCount' = 0 /\ unlinkAll = {}]_vars
    /\ [][(allPc = "await" /\ allPc' = "idle") => CleanupAllResumes]_vars
    /\ [][\A p \in Paths :
             AllUnlinkSettles(p, TRUE) =>
                /\ unlinkAll' = unlinkAll \ {p}
                /\ allPc' = "await"]_vars
    /\ [][\A p \in Paths :
             (AllUnlinkSettles(p, FALSE) /\ ~AllUnlinkSettles(p, TRUE)) =>
                disk'[p] = "absent"]_vars
    /\ [](unlinkAll # {} => allPc = "await")

\* C28 witness: cleanupAll() was called with two tracked paths and has
\* completed; the file of the first is still there (its unlink failed), the
\* file of the second is gone, and nothing is tracked.
C28_Witness ==
    /\ interval = "cleared"
    /\ allPc = "idle"
    /\ nextPath = 3
    /\ fileCount = 0
    /\ disk[1] = "old"
    /\ disk[2] = "absent"
    /\ PendingTotal = 0

\* A step of cleanupStale() after one of its awaits.
SweepStep == SweepStatSettles \/ \E fails \in BOOLEAN : SweepUnlinkSettles(fails)

\* C29: the sweep untracks only paths whose file it found to be older than
\* one hour: a path that a step of cleanupStale() removes from the tracked
\* set has a stale file, or was found stale and its fs.unlink has settled.
C29_SweepOnlyStale ==
    [][\A p \in Paths :
          (SweepStep /\ p \in tempFiles /\ p \notin tempFiles') =>
              IsStale(disk[p]) \/ SweepAwaitsUnlink(p)]_vars

PlayEndsStep == \E ok \in BOOLEAN : PlayEnds(ok)

\* C33: when playAudio has settled, resolved or rejected, the handler calls
\* cleanup(outputFile): an fs.unlink is issued for the file if it is tracked;
\* the handler issues no fs.unlink at any other point; and when a call whose
\* playback has ended is over, its output file is not tracked.
C33_CleanupAfterPlayback ==
    /\ [][PlayEndsStep =>
             IF playFile \in tempFiles
             THEN UnlinkIssued(playFile) /\ playPc' = "unlink"
             ELSE playPc' = "idle" /\ lastIgnored' = playFile]_vars
    /\ [][\A p \in Paths :
             unlinkDirect'[p] > unlinkDirect[p] =>
                playPc = "play" /\ p = playFile]_vars
    /\ []((playPc = "idle" /\ playOutcome \in {"played", "playFailed"}) =>
             playFile \notin tempFiles)

\* C33 witness: the second call wrote to a temp file, its playback failed and
\* the call is over; no cleanup() ever found its path untracked and
\* cleanupAll() was never called; the file is gone and nothing is tracked.
C33_Witness ==
    /\ playPc = "idle"
    /\ playOutcome = "playFailed"
    /\ playFile = 2
    /\ lastIgnored = -1
    /\ interval = "set"
    /\ disk[2] = "absent"
    /\ tempFiles = {}

\* C39: a tracked path leaves the tracked set only when the fs.unlink of a
\* cleanup() of it has settled (called from outside, by cleanupAll() or by
\* the sweep for a file it found stale) or when cleanupAll() completes.
C39_TrackedUntilCleanup ==
    [][\A p \in Paths :
          (p \in tempFiles /\ p \notin tempFiles') =>
              \/ \E fails \in BOOLEAN : DirectUnlinkSettles(p, fails)
              \/ \E fails \in BOOLEAN : AllUnlinkSettles(p, fails)
              \/ CleanupAllResumes
              \/ \E fails \in BOOLEAN : SweepUnlinkSettles(fails) /\ sweepAt = p]_vars

\* C40: when cleanupAll() completes, every path that is tracked at that
\* moment stays tracked, unless an fs.unlink for it is pending.
C40_CleanupAllDropsNothing ==
    [][\A p \in Paths :
          (CleanupAllResumes /\ p \in tempFiles) =>
              p \in tempFiles' \/ PendingUnlinks(p) > 0]_vars

\* ------------------------------------------------------------ specifications

\* The queue alone.
Init == QueueInit /\ PMInitWith(MaxCap) /\ RetryInit /\ SynthInit /\ CacheInit /\ TmpInit /\ StderrInit /\ PlayInit

Next == QueueNext

Spec == Init /\ [][Next]_vars

\* The queue alone, with the event loop running every continuation that is
\* ready and every execute() settling.
FairSpec ==
    /\ Spec
    /\ WF_vars(\E j \in Jobs, ok \in BOOLEAN : ExecuteSettles(j, ok))
    /\ WF_vars(\E i \in Jobs : ProcessSingleItemResumes(i))
    /\ WF_vars(\E i \in Jobs : ProcessQueueResumes(i))

\* The process manager alone.
PMSpecInit == QueueInit /\ PMInit /\ RetryInit /\ SynthInit /\ CacheInit /\ TmpInit /\ StderrInit /\ PlayInit

PMSpec == PMSpecInit /\ [][PMNext]_vars

\* The process manager alone, with its timers firing when they are due, the
\* error event of a failed start being delivered, and a child that was sent
\* SIGKILL ending by it. A child is not assumed to exit otherwise: it may run
\* for ever and ignore SIGTERM.
PMFairSpec ==
    /\ PMSpec
    /\ \A p \in Procs :
          /\ WF_vars(TimeoutFires(p))
          /\ WF_vars(GraceFires(p))
          /\ WF_vars(SpawnErrorEvent(p))
          /\ WF_vars(SentTo(p, "SIGKILL") /\ ProcExits(p, "SIGKILL"))

\* One call of the retry loop alone.
RetrySpecInit == QueueInit /\ PMInitWith(MaxCap) /\ RetryInit /\ SynthInit /\ CacheInit /\ TmpInit /\ StderrInit /\ PlayInit

RetrySpec == RetrySpecInit /\ [][RetryNext]_vars

\* The queue with the retry loop as the execute of every job.
SynthSpecInit == QueueInit /\ PMInitWith(MaxCap) /\ RetryInit /\ SynthInit /\ CacheInit /\ TmpInit /\ StderrInit /\ PlayInit

SynthSpec == SynthSpecInit /\ [][SynthNext]_vars

\* The narrator cache alone.
CacheSpecInit == QueueInit /\ PMInitWith(MaxCap) /\ RetryInit /\ SynthInit /\ CacheInit /\ TmpInit /\ StderrInit /\ PlayInit

CacheSpec == CacheSpecInit /\ [][CacheNext]_vars

\* The temp file manager alone.
TmpSpecInit ==
    /\ QueueInit /\ PMInitWith(MaxCap) /\ RetryInit /\ SynthInit
    /\ CacheInit /\ TmpInit /\ StderrInit /\ PlayInit

TmpSpec == TmpSpecInit /\ [][TmpNext]_vars

\* ensureExists() of the temp file manager.
EnsureSpecInit ==
    /\ QueueInit /\ PMInitWith(MaxCap) /\ RetryInit /\ SynthInit
    /\ CacheInit /\ TmpInit /\ StderrInit /\ PlayInit

EnsureSpec == EnsureSpecInit /\ [][EnsureNext]_vars

\* The synthesize_and_play handler with the temp file manager.
PlaySpecInit ==
    /\ QueueInit /\ PMInitWith(MaxCap) /\ RetryInit /\ SynthInit
    /\ CacheInit /\ TmpInit /\ StderrInit /\ PlayInit

PlaySpec == PlaySpecInit /\ [][PlayNext]_vars

\* The stderr buffer of one spawn() call and its exit handler alone.
StderrSpecInit ==
    /\ QueueInit /\ PMInitWith(MaxCap) /\ RetryInit /\ SynthInit
    /\ CacheInit /\ TmpInit /\ StderrInit /\ PlayInit

StderrSpec == StderrSpecInit /\ [][StderrNext]_vars

====
